---- MODULE Spec2Model ----
(***************************************************************************)
(* Model of the protobuf-studio transcoding core: the JSON Schema deriver  *)
(* (hooks/useProtobuf.ts), the default value generator                     *)
(* (utils/generateDefaultMessage.ts) and the two value normalizer passes   *)
(* (utils/normalizeEnumValues.ts, utils/normalizeBytesFields.ts).          *)
(* Further down: the text format serializer (messageToProtoText) and the   *)
(* import resolver of hooks/useProtobuf.ts, each with its own              *)
(* specification over the same variables.  Then the convert pipeline       *)
(* (ConvertSpec), the editor content effects of App.tsx (AppSpec) and the  *)
(* useProtobuf hook as a whole with overlapping loads (HookSpec).          *)
(*                                                                         *)
(* A JavaScript string is a sequence of UTF-16 code units (numbers), so    *)
(* that the regular expression, the UTF-8 encoder and btoa are computed    *)
(* character by character.  Identifiers (field names, type names, object   *)
(* keys) are TLA+ strings: the code only compares and looks them up.       *)
(***************************************************************************)
EXTENDS Integers, Sequences, FiniteSets, TLC

VARIABLES reg, root, pc, stack, visitedTypes, schema, maxDepth, defaultMsg,
          normType, normInput, normValue, normOps,
          textMsg, textKeys, textOut,
          loadedFiles, unresolvedImports, lastOp,
          availableMessages, selectedMessage, rootLoaded, error, mainFile,
          protoFiles, savedMainFile, pendingLoads,
          jsonValue, isInitialMount, saveTimer, pendingContent, messageStates,
          lastJson, lastSave,
          convRoot, convJson, convFormat, convStage, convObj, convSteps,
          convVerifyError, convBuffer, convResult

vars == <<reg, root, pc, stack, visitedTypes, schema, maxDepth, defaultMsg,
          normType, normInput, normValue, normOps,
          textMsg, textKeys, textOut,
          loadedFiles, unresolvedImports, lastOp,
          availableMessages, selectedMessage, rootLoaded, error, mainFile,
          protoFiles, savedMainFile, pendingLoads,
          jsonValue, isInitialMount, saveTimer, pendingContent, messageStates,
          lastJson, lastSave,
          convRoot, convJson, convFormat, convStage, convObj, convSteps,
          convVerifyError, convBuffer, convResult>>

schemaVars == <<reg, root, pc, stack, visitedTypes, schema, maxDepth, defaultMsg>>

normVars == <<normType, normInput, normValue, normOps>>

\* the message handed to the text serializer, the order of its own keys and
\* the text returned
textVars == <<textMsg, textKeys, textOut>>

\* the loaded-file mapping and the unresolved-import list of the hook's
\* state, and the hook operation that set them
importVars == <<loadedFiles, unresolvedImports, lastOp>>

\* the rest of the hook's state (useProtobuf), the persisted 'protoFiles'
\* and 'mainFile' entries of localStorage and the loadProtoFile calls in flight
hookVars == <<availableMessages, selectedMessage, rootLoaded, error, mainFile,
              protoFiles, savedMainFile, pendingLoads>>

\* the state of the App component around the per-message JSON content: the
\* editor content, the initial-mount flag, the debounce timer of the save
\* effect, the content loads in flight, the IndexedDB store, the 'lastJson'
\* entry of localStorage and the last call of saveMessageState
appVars == <<jsonValue, isInitialMount, saveTimer, pendingContent, messageStates,
             lastJson, lastSave>>

\* one call of useConversion.convert: its arguments, its position, the
\* object being converted, the steps run, what verify reported, the encoded
\* buffer and the result returned
convVars == <<convRoot, convJson, convFormat, convStage, convObj, convSteps,
              convVerifyError, convBuffer, convResult>>

(***************************************************************************)
(* Bounds of the model.                                                    *)
(***************************************************************************)
\* largest number of fields of a message type of the enumerated graphs
MaxFields == 2

\* largest maxDepth handed to generateDefaultMessage
MaxDepthBound == 3

\* depth of the JavaScript call stack at which the engine raises RangeError
MaxCallDepth == 8

\* largest number of normalizer passes applied in a row
MaxPasses == 2

Range(s) == {s[i] : i \in DOMAIN s}

(***************************************************************************)
(* JSON values.                                                            *)
(***************************************************************************)
JNull == [k |-> "null"]

JNum(n) == [k |-> "num", n |-> n]

JBool(b) == [k |-> "bool", b |-> b]

JStr(s) == [k |-> "str", s |-> s]

JArr(e) == [k |-> "arr", e |-> e]

JObj(m) == [k |-> "obj", m |-> m]

EmptyMap == [key \in {} |-> JNull]

\* the outcome of a call that raised instead of returning
Thrown == [k |-> "throw"]

\* the serializer and the resolver have not been called
TextIdle ==
  /\ textMsg = JNull
  /\ textKeys = <<>>
  /\ textOut = <<>>

ImportIdle ==
  /\ loadedFiles = <<>>
  /\ unresolvedImports = <<>>
  /\ lastOp = "none"

\* null, for a message name
NoMessage == "null"

\* a ConversionResult is a record of the fields it carries; none before return
NoResult == [field \in {} |-> <<>>]

\* the editor content of a freshly mounted App (DEFAULT_JSON)
DefaultJson == [owner |-> NoMessage, kind |-> "DEFAULT_JSON"]

\* no content: a missing store entry, a missing localStorage entry
NoContent == [owner |-> NoMessage, kind |-> "none"]

\* no timer pending, no call of saveMessageState made
NoSave == [message |-> NoMessage, json |-> NoContent]

\* the hook has just been constructed and nothing is persisted
HookIdle ==
  /\ availableMessages = <<>>
  /\ selectedMessage = NoMessage
  /\ rootLoaded = FALSE
  /\ error = "null"
  /\ mainFile = <<>>
  /\ protoFiles = <<>>
  /\ savedMainFile = <<>>
  /\ pendingLoads = <<>>

AppIdle ==
  /\ jsonValue = DefaultJson
  /\ isInitialMount = TRUE
  /\ saveTimer = NoSave
  /\ pendingContent = {}
  /\ messageStates = <<>>
  /\ lastJson = NoContent
  /\ lastSave = NoSave

ConvIdle ==
  /\ convRoot = FALSE
  /\ convJson = JNull
  /\ convFormat = "binary"
  /\ convStage = "idle"
  /\ convObj = JNull
  /\ convSteps = <<>>
  /\ convVerifyError = "null"
  /\ convBuffer = <<>>
  /\ convResult = NoResult

IsObjectLike(v) == v.k \in {"obj", "arr"}

(***************************************************************************)
(* Strings used in the examples of the documentation.                      *)
(***************************************************************************)
\* "ACTIVE"
S_ACTIVE == <<65, 67, 84, 73, 86, 69>>

\* "INACTIVE"
S_INACTIVE == <<73, 78, 65, 67, 84, 73, 86, 69>>

\* "UNKNOWN"
S_UNKNOWN == <<85, 78, 75, 78, 79, 87, 78>>

\* "hello world"
S_hello_world == <<104, 101, 108, 108, 111, 32, 119, 111, 114, 108, 100>>

\* "aGVsbG8gd29ybGQ="
S_hello_world_b64 == <<97, 71, 86, 115, 98, 71, 56, 103, 100, 50, 57, 121, 98, 71, 81, 61>>

\* "SGVsbG8=" (base64 of "Hello")
S_Hello_b64 == <<83, 71, 86, 115, 98, 71, 56, 61>>

\* "SGVsbG8gV29ybGQ=" (base64 of "Hello World")
S_Hello_World_b64 == <<83, 71, 86, 115, 98, 71, 56, 103, 86, 50, 57, 121, 98, 71, 81, 61>>

(***************************************************************************)
(* Base64 detection and encoding (utils/normalizeBytesFields.ts).          *)
(***************************************************************************)
\* the character class [A-Za-z0-9+/]
IsBase64Char(c) ==
  \/ c \in 65..90
  \/ c \in 97..122
  \/ c \in 48..57
  \/ c = 43
  \/ c = 47

\* '='
PadChar == 61

\* /^[A-Za-z0-9+/]*={0,2}$/.test(str)
MatchesBase64Pattern(str) ==
  \E p \in 0..2 :
    /\ p <= Len(str)
    /\ \A i \in 1..(Len(str) - p) : IsBase64Char(str[i])
    /\ \A i \in (Len(str) - p + 1)..Len(str) : str[i] = PadChar

\* (str.match(/=/g) || []).length
CountPad(str) == Cardinality({i \in DOMAIN str : str[i] = PadChar})

\* str.length + (str.match(/=/g) || []).length
PaddedLength(str) == Len(str) + CountPad(str)

IsValidBase64(str) ==
  IF str = <<>> THEN TRUE
  ELSE IF ~MatchesBase64Pattern(str) THEN FALSE
  ELSE PaddedLength(str) % 4 = 0

\* TextEncoder.encode of one code unit (surrogates are outside the inputs)
Utf8OfUnit(c) ==
  IF c < 128 THEN <<c>>
  ELSE IF c < 2048 THEN <<192 + (c \div 64), 128 + (c % 64)>>
  ELSE <<224 + (c \div 4096), 128 + ((c \div 64) % 64), 128 + (c % 64)>>

RECURSIVE Utf8Encode(_)
Utf8Encode(str) ==
  IF str = <<>> THEN <<>>
  ELSE Utf8OfUnit(Head(str)) \o Utf8Encode(Tail(str))

\* the base64 alphabet ABC...XYZabc...xyz0123456789+/
Base64Digit(i) ==
  IF i < 26 THEN 65 + i
  ELSE IF i < 52 THEN 97 + (i - 26)
  ELSE IF i < 62 THEN 48 + (i - 52)
  ELSE IF i = 62 THEN 43
  ELSE 47

RECURSIVE Btoa(_)
Btoa(bytes) ==
  IF Len(bytes) = 0 THEN <<>>
  ELSE IF Len(bytes) = 1 THEN
    << Base64Digit(bytes[1] \div 4),
       Base64Digit((bytes[1] % 4) * 16),
       PadChar, PadChar >>
  ELSE IF Len(bytes) = 2 THEN
    << Base64Digit(bytes[1] \div 4),
       Base64Digit((bytes[1] % 4) * 16 + (bytes[2] \div 16)),
       Base64Digit((bytes[2] % 16) * 4),
       PadChar >>
  ELSE
    << Base64Digit(bytes[1] \div 4),
       Base64Digit((bytes[1] % 4) * 16 + (bytes[2] \div 16)),
       Base64Digit((bytes[2] % 16) * 4 + (bytes[3] \div 64)),
       Base64Digit(bytes[3] % 64) >>
    \o Btoa(SubSeq(bytes, 4, Len(bytes)))

Utf8ToBase64(str) == Btoa(Utf8Encode(str))

(***************************************************************************)
(* Descriptors.  A registry maps a type name to a message or an enum       *)
(* descriptor; field.resolvedType is the registry entry of field.type.     *)
(***************************************************************************)
None == [kind |-> "none"]

Fld(name, type) ==
  [name |-> name, type |-> type, repeated |-> FALSE, map |-> FALSE, required |-> FALSE]

Rep(name, type) ==
  [name |-> name, type |-> type, repeated |-> TRUE, map |-> FALSE, required |-> FALSE]

MapFld(name, type) ==
  [name |-> name, type |-> type, repeated |-> FALSE, map |-> TRUE, required |-> FALSE]

Req(name, type) ==
  [name |-> name, type |-> type, repeated |-> FALSE, map |-> FALSE, required |-> TRUE]

OneOf(name, fieldNames) == [name |-> name, fieldNames |-> fieldNames]

Message(fullName, fields, oneofs) ==
  [kind |-> "message", fullName |-> fullName, fields |-> fields, oneofs |-> oneofs]

EnumVal(name, number) == [name |-> name, number |-> number]

Enum(fullName, values) == [kind |-> "enum", fullName |-> fullName, values |-> values]

\* enum Status { ACTIVE = 1; INACTIVE = 0; }
StatusEnum ==
  Enum("Status", <<EnumVal(S_ACTIVE, 1), EnumVal(S_INACTIVE, 0)>>)

ResolvedType(R, field) == IF field.type \in DOMAIN R THEN R[field.type] ELSE None

IsEnum(t) == t.kind = "enum"

IsType(t) == t.kind = "message"

\* type.fields[key]
HasField(type, key) == \E i \in DOMAIN type.fields : type.fields[i].name = key

FieldByName(type, key) ==
  type.fields[CHOOSE i \in DOMAIN type.fields : type.fields[i].name = key]

\* the names added to oneofFields
OneofFieldNames(type) == UNION {Range(o.fieldNames) : o \in Range(type.oneofs)}

PrimitiveTypes ==
  {"double", "float", "int32", "int64", "uint32", "uint64", "sint32", "sint64",
   "fixed32", "fixed64", "sfixed32", "sfixed64", "bool", "string", "bytes"}

\* fullName.startsWith('google.protobuf.'), over the names of the registries
GoogleProtobufNames ==
  {"google.protobuf.StringValue", "google.protobuf.Int32Value",
   "google.protobuf.Int64Value", "google.protobuf.UInt32Value",
   "google.protobuf.UInt64Value", "google.protobuf.FloatValue",
   "google.protobuf.DoubleValue", "google.protobuf.BoolValue",
   "google.protobuf.BytesValue", "google.protobuf.Timestamp",
   "google.protobuf.Duration", "google.protobuf.Empty", "google.protobuf.Struct",
   "google.protobuf.Value", "google.protobuf.ListValue",
   "google.protobuf.FieldMask", "google.protobuf.Any"}

StartsWithGoogleProtobuf(fullName) == fullName \in GoogleProtobufNames

(***************************************************************************)
(* Default value generator (generateDefaultMessage and its helpers).       *)
(***************************************************************************)
PrimitiveDefault(protoType) ==
  IF protoType = "bool" THEN JBool(FALSE)
  ELSE IF protoType \in {"string", "bytes"} THEN JStr(<<>>)
  ELSE JNum(0)

GenerateDefaultEnumValue(enumType) ==
  IF Len(enumType.values) > 0 THEN JNum(enumType.values[1].number) ELSE JNum(0)

GenerateDefaultWellKnownType(fullName) ==
  IF fullName \in {"google.protobuf.StringValue", "google.protobuf.BytesValue"}
    THEN JStr(<<>>)
  ELSE IF fullName \in {"google.protobuf.Int32Value", "google.protobuf.Int64Value",
                        "google.protobuf.UInt32Value", "google.protobuf.UInt64Value",
                        "google.protobuf.FloatValue", "google.protobuf.DoubleValue"}
    THEN JNum(0)
  ELSE IF fullName = "google.protobuf.BoolValue" THEN JBool(FALSE)
  ELSE IF fullName \in {"google.protobuf.Timestamp", "google.protobuf.Duration"}
    THEN JObj([key \in {"seconds", "nanos"} |-> JNum(0)])
  ELSE IF fullName = "google.protobuf.Value" THEN JNull
  ELSE IF fullName = "google.protobuf.ListValue"
    THEN JObj([key \in {"values"} |-> JArr(<<>>)])
  ELSE IF fullName = "google.protobuf.FieldMask"
    THEN JObj([key \in {"paths"} |-> JArr(<<>>)])
  ELSE IF fullName = "google.protobuf.Any"
    THEN JObj([key \in {"typeUrl", "value"} |-> JStr(<<>>)])
  ELSE JObj(EmptyMap)

\* a plausible slip: every member of a oneof group gets a value
OneofGeneratedAll(type) ==
  UNION {Range(o.fieldNames) : o \in Range(type.oneofs)}

\* the member fields of the oneof groups that get a value: fieldsArray[0]
OneofGenerated(type) ==
  {o.fieldNames[1] : o \in {g \in Range(type.oneofs) : Len(g.fieldNames) > 0}}

\* a plausible slip: the bound is reached one level early
NestedDepthReachedEarly(maxDepth_, currentDepth) == currentDepth + 2 >= maxDepth_

\* currentDepth + 1 >= maxDepth
NestedDepthReached(maxDepth_, currentDepth) == currentDepth + 1 >= maxDepth_

\* a plausible slip: the guard at the head of generateDefaultMessage is lost
DepthReachedNever(maxDepth_, currentDepth) == FALSE

\* currentDepth >= maxDepth
DepthReached(maxDepth_, currentDepth) == currentDepth >= maxDepth_

RECURSIVE GenerateDefaultMessage(_, _, _, _)
RECURSIVE GenerateDefaultValueByType(_, _, _, _)

GenerateDefaultFieldValue(R, field, maxDepth_, currentDepth) ==
  IF field.repeated THEN JArr(<<>>)
  ELSE IF field.map THEN JObj(EmptyMap)
  ELSE GenerateDefaultValueByType(R, field, maxDepth_, currentDepth)

GenerateDefaultValueByType(R, field, maxDepth_, currentDepth) ==
  LET resolvedType == ResolvedType(R, field) IN
  IF field.type \in PrimitiveTypes THEN PrimitiveDefault(field.type)
  ELSE IF resolvedType = None THEN JObj(EmptyMap)
  ELSE IF IsEnum(resolvedType) THEN GenerateDefaultEnumValue(resolvedType)
  ELSE IF StartsWithGoogleProtobuf(resolvedType.fullName)
    THEN GenerateDefaultWellKnownType(resolvedType.fullName)
  ELSE IF NestedDepthReached(maxDepth_, currentDepth) THEN JObj(EmptyMap)
  ELSE GenerateDefaultMessage(R, resolvedType, maxDepth_, currentDepth + 1)

GenerateDefaultMessage(R, type, maxDepth_, currentDepth) ==
  IF DepthReached(maxDepth_, currentDepth) THEN JObj(EmptyMap)
  ELSE
    LET oneofFields == OneofFieldNames(type)
        regular == {f.name : f \in {g \in Range(type.fields) : g.name \notin oneofFields}}
        keys == OneofGenerated(type) \cup regular
    IN JObj([key \in keys |->
               GenerateDefaultFieldValue(R, FieldByName(type, key), maxDepth_, currentDepth)])

(***************************************************************************)
(* Value normalizer: the enum pass (normalizeEnumValues) and the bytes     *)
(* pass (normalizeBytesFields).  A call that raises returns Thrown.        *)
(***************************************************************************)
HasEnumName(enumType, name) == \E i \in DOMAIN enumType.values : enumType.values[i].name = name

\* a plausible slip: the position of the name instead of its number
EnumNumberByIndex(enumType, name) ==
  CHOOSE i \in DOMAIN enumType.values : enumType.values[i].name = name

\* enumType.values[value], for a name of the enum
EnumNumber(enumType, name) ==
  enumType.values[CHOOSE i \in DOMAIN enumType.values : enumType.values[i].name = name].number

\* the result of a forEach/map whose callbacks produced the values of m
ObjOrThrown(m) == IF \E key \in DOMAIN m : m[key] = Thrown THEN Thrown ELSE JObj(m)

ArrOrThrown(e) == IF \E i \in DOMAIN e : e[i] = Thrown THEN Thrown ELSE JArr(e)

\* a plausible slip: a key without a field is dropped (return without storing)
ResultKeysKnown(obj, type) == {key \in DOMAIN obj.m : HasField(type, key)}

\* the keys stored in result: Object.keys(obj), each stored on every branch
ResultKeys(obj, type) == DOMAIN obj.m

RECURSIVE NormalizeEnumValues(_, _, _)
NormalizeEnumValues(R, obj, type) ==
  IF obj.k = "throw" THEN Thrown
  ELSE IF obj.k = "null" THEN obj
  ELSE IF obj.k = "arr" THEN
    ArrOrThrown([i \in DOMAIN obj.e |->
                   IF IsObjectLike(obj.e[i]) THEN NormalizeEnumValues(R, obj.e[i], type)
                   ELSE obj.e[i]])
  ELSE IF obj.k # "obj" THEN obj
  ELSE
    ObjOrThrown([key \in ResultKeys(obj, type) |->
      LET value == obj.m[key] IN
      IF ~HasField(type, key) THEN value
      ELSE
        LET field == FieldByName(type, key)
            resolvedType == ResolvedType(R, field)
        IN
        IF IsEnum(resolvedType) THEN
          IF value.k = "str" /\ HasEnumName(resolvedType, value.s)
            THEN JNum(EnumNumber(resolvedType, value.s))
            ELSE value
        ELSE IF IsType(resolvedType) /\ IsObjectLike(value) THEN
          IF field.repeated THEN
            IF value.k = "arr"
              THEN ArrOrThrown([i \in DOMAIN value.e |->
                                  NormalizeEnumValues(R, value.e[i], resolvedType)])
              ELSE Thrown  \* value.map is not a function
          ELSE NormalizeEnumValues(R, value, resolvedType)
        ELSE value])

\* the non-empty string of a bytes field
BytesString(value) ==
  IF ~IsValidBase64(value.s) THEN JStr(Utf8ToBase64(value.s)) ELSE value

\* a plausible slip: every string-holding field is taken for a bytes field
IsBytesFieldAny(field) == TRUE

\* field.type === 'bytes'
IsBytesField(field) == field.type = "bytes"

RECURSIVE NormalizeBytesFields(_, _, _)
NormalizeBytesFields(R, obj, type) ==
  IF obj.k = "throw" THEN Thrown
  ELSE IF obj.k = "null" THEN obj
  ELSE IF obj.k = "arr" THEN
    ArrOrThrown([i \in DOMAIN obj.e |->
                   IF IsObjectLike(obj.e[i]) THEN NormalizeBytesFields(R, obj.e[i], type)
                   ELSE obj.e[i]])
  ELSE IF obj.k # "obj" THEN obj
  ELSE
    ObjOrThrown([key \in ResultKeys(obj, type) |->
      LET value == obj.m[key] IN
      IF ~HasField(type, key) THEN value
      ELSE
        LET field == FieldByName(type, key)
            resolvedType == ResolvedType(R, field)
        IN
        IF IsBytesField(field) /\ value.k = "str" /\ value.s # <<>> THEN BytesString(value)
        ELSE IF IsType(resolvedType) /\ IsObjectLike(value) THEN
          IF field.repeated THEN
            IF value.k = "arr"
              THEN ArrOrThrown([i \in DOMAIN value.e |->
                                  NormalizeBytesFields(R, value.e[i], resolvedType)])
              ELSE Thrown  \* value.map is not a function
          ELSE NormalizeBytesFields(R, value, resolvedType)
        ELSE value])

(***************************************************************************)
(* Schema deriver (hooks/useProtobuf.ts).  The recursion of                *)
(* convertTypeToJsonSchema -> convertFieldToJsonSchema ->                  *)
(* convertFieldTypeToJsonSchema -> convertTypeToJsonSchema is unfolded     *)
(* into steps over an explicit call stack: one frame per active call of    *)
(* convertTypeToJsonSchema, sharing the one mutable set visitedTypes.      *)
(***************************************************************************)
\* typeMap[protoType]
TypeMap(protoType) ==
  IF protoType \in {"double", "float"} THEN "number"
  ELSE IF protoType = "bool" THEN "boolean"
  ELSE IF protoType \in {"string", "bytes"} THEN "string"
  ELSE "integer"

WrapperNames ==
  {"google.protobuf.StringValue", "google.protobuf.Int32Value",
   "google.protobuf.Int64Value", "google.protobuf.UInt32Value",
   "google.protobuf.UInt64Value", "google.protobuf.FloatValue",
   "google.protobuf.DoubleValue", "google.protobuf.BoolValue",
   "google.protobuf.BytesValue"}

\* wrapperTypeMap[typeName]
WrapperTypeMap(fullName) ==
  IF fullName \in {"google.protobuf.StringValue", "google.protobuf.BytesValue"} THEN "string"
  ELSE IF fullName \in {"google.protobuf.FloatValue", "google.protobuf.DoubleValue"}
    THEN "number"
  ELSE IF fullName = "google.protobuf.BoolValue" THEN "boolean"
  ELSE "integer"

\* the schema returned for a type that is already being expanded
PlaceholderSchema(typeId) ==
  [type |-> "object", description |-> <<"Circular reference to ", typeId>>]

EnumSchema(enumType, protoType) ==
  [oneOf |->
     << [type |-> "integer",
         enum |-> [i \in DOMAIN enumType.values |-> JNum(enumType.values[i].number)],
         description |-> <<"Enum numeric value: ", protoType>>],
        [type |-> "string",
         enum |-> [i \in DOMAIN enumType.values |-> JStr(enumType.values[i].name)],
         description |-> <<"Enum string value: ", protoType>>] >>,
   description |-> <<"Enum: ", protoType, " (accepts both string names and numeric values)">>]

\* convertFieldTypeToJsonSchema reaches its call of convertTypeToJsonSchema
CallsConvertType(R, field) ==
  LET resolvedType == ResolvedType(R, field) IN
  /\ field.type \notin PrimitiveTypes
  /\ IsType(resolvedType)
  /\ resolvedType.fullName \notin WrapperNames

\* convertFieldTypeToJsonSchema for a field that needs no recursion
LeafFieldTypeSchema(R, field) ==
  LET resolvedType == ResolvedType(R, field) IN
  IF field.type \in PrimitiveTypes
    THEN [type |-> TypeMap(field.type), description |-> <<"Type: ", field.type>>]
  ELSE IF IsEnum(resolvedType) THEN EnumSchema(resolvedType, field.type)
  ELSE IF IsType(resolvedType) /\ resolvedType.fullName \in WrapperNames
    THEN [type |-> WrapperTypeMap(resolvedType.fullName),
          description |-> <<"Wrapper: ", resolvedType.fullName>>]
  ELSE [type |-> "object", description |-> <<"Message type: ", field.type>>]

\* convertFieldToJsonSchema, given the schema of the field's type
WrapRepeated(field, fieldTypeSchema) ==
  IF field.repeated
    THEN [type |-> "array", items |-> fieldTypeSchema,
          description |-> <<"Repeated field: ", field.type>>]
    ELSE fieldTypeSchema

\* the description added to a member of a oneof group
AnnotateOneof(fieldSchema, oneofName) ==
  LET oneofDescription ==
        <<"[oneof ", oneofName, "] Only one field from this group can be set">>
  IN IF "description" \in DOMAIN fieldSchema
       THEN [fieldSchema EXCEPT !.description = oneofDescription \o <<". ">> \o @]
       ELSE fieldSchema @@ [description |-> oneofDescription]

\* the property schema stored for a work item, given the schema of its type
PropertySchema(item, fieldTypeSchema) ==
  IF item.oneof = ""
    THEN WrapRepeated(item.field, fieldTypeSchema)
    ELSE AnnotateOneof(WrapRepeated(item.field, fieldTypeSchema), item.oneof)

RECURSIVE OneofItems(_, _)
OneofItems(type, oneofs) ==
  IF oneofs = <<>> THEN <<>>
  ELSE [i \in DOMAIN Head(oneofs).fieldNames |->
          [field |-> FieldByName(type, Head(oneofs).fieldNames[i]),
           oneof |-> Head(oneofs).name]]
       \o OneofItems(type, Tail(oneofs))

\* the fields in the order convertTypeToJsonSchema converts them: the members
\* of the oneof groups first, then the fields outside every group
WorkItems(type) ==
  LET oneofFields == OneofFieldNames(type)
      regular == SelectSeq(type.fields, LAMBDA f : f.name \notin oneofFields)
  IN OneofItems(type, type.oneofs)
     \o [i \in DOMAIN regular |-> [field |-> regular[i], oneof |-> ""]]

NewFrame(type) ==
  [typeId |-> type.fullName, work |-> WorkItems(type), idx |-> 1,
   properties |-> [key \in {} |-> None], required |-> <<>>]

\* the object schema of a frame whose fields are all converted
FrameSchema(frame) ==
  IF frame.required = <<>>
    THEN [type |-> "object", properties |-> frame.properties]
    ELSE [type |-> "object", properties |-> frame.properties, required |-> frame.required]

\* the frame after schema.properties[field.name] = fieldSchema (and required.push)
WithProperty(frame, fieldTypeSchema) ==
  LET item == frame.work[frame.idx]
      name == item.field.name
      others == DOMAIN frame.properties \ {name}
  IN [frame EXCEPT
        !.properties = [key \in others \cup {name} |->
                          IF key = name THEN PropertySchema(item, fieldTypeSchema)
                          ELSE frame.properties[key]],
        !.required = IF item.oneof = "" /\ item.field.required THEN Append(@, name) ELSE @,
        !.idx = @ + 1]

\* a plausible slip: the cycle check is left out
IsVisitedNever(visited, typeId) == FALSE

\* visitedTypes.has(typeId)
IsVisited(visited, typeId) == typeId \in visited

\* a plausible slip: the id stays in the set when the type is left
VisitedOnLeaveKept(visited, typeId) == visited

\* visitedTypes.delete(typeId)
VisitedOnLeave(visited, typeId) == visited \ {typeId}

Top == stack[Len(stack)]

Pop == SubSeq(stack, 1, Len(stack) - 1)

HasWork == pc = "schema" /\ stack # <<>> /\ Top.idx <= Len(Top.work)

CurrentField == Top.work[Top.idx].field

\* generateJsonSchema: a fresh visited set, then convertTypeToJsonSchema(root)
GenerateJsonSchema ==
  /\ pc = "idle"
  /\ pc' = "schema"
  /\ visitedTypes' = {reg[root].fullName}
  /\ stack' = <<NewFrame(reg[root])>>
  /\ UNCHANGED <<reg, root, schema, maxDepth, defaultMsg>>
  /\ UNCHANGED <<normVars, textVars, importVars, hookVars, appVars,
               convVars>>

\* a field of primitive, enum, wrapper or unresolved type
ConvertLeafField ==
  /\ HasWork
  /\ ~CallsConvertType(reg, CurrentField)
  /\ stack' = [stack EXCEPT ![Len(stack)] =
                 WithProperty(Top, LeafFieldTypeSchema(reg, CurrentField))]
  /\ UNCHANGED <<reg, root, pc, visitedTypes, schema, maxDepth, defaultMsg>>
  /\ UNCHANGED <<normVars, textVars, importVars, hookVars, appVars,
               convVars>>

\* a message field whose type is being expanded: the placeholder is returned
ConvertCircularField ==
  /\ HasWork
  /\ CallsConvertType(reg, CurrentField)
  /\ IsVisited(visitedTypes, ResolvedType(reg, CurrentField).fullName)
  /\ stack' = [stack EXCEPT ![Len(stack)] =
                 WithProperty(Top, PlaceholderSchema(ResolvedType(reg, CurrentField).fullName))]
  /\ UNCHANGED <<reg, root, pc, visitedTypes, schema, maxDepth, defaultMsg>>
  /\ UNCHANGED <<normVars, textVars, importVars, hookVars, appVars,
               convVars>>

\* a message field whose type is not being expanded: convertTypeToJsonSchema is
\* entered; at the limit of the call stack the engine raises RangeError, which
\* generateJsonSchema catches to return null
EnterType ==
  /\ HasWork
  /\ CallsConvertType(reg, CurrentField)
  /\ ~IsVisited(visitedTypes, ResolvedType(reg, CurrentField).fullName)
  /\ IF Len(stack) >= MaxCallDepth
       THEN /\ pc' = "schemaFailed"
            /\ stack' = <<>>
            /\ UNCHANGED visitedTypes
       ELSE /\ pc' = pc
            /\ visitedTypes' = visitedTypes \cup {ResolvedType(reg, CurrentField).fullName}
            /\ stack' = Append(stack, NewFrame(ResolvedType(reg, CurrentField)))
  /\ UNCHANGED <<reg, root, schema, maxDepth, defaultMsg>>
  /\ UNCHANGED <<normVars, textVars, importVars, hookVars, appVars,
               convVars>>

\* every field of the type is converted: the id is removed and the schema
\* returned, to the field of the caller or as the result of generateJsonSchema
ReturnType ==
  /\ pc = "schema"
  /\ stack # <<>>
  /\ Top.idx > Len(Top.work)
  /\ visitedTypes' = VisitedOnLeave(visitedTypes, Top.typeId)
  /\ IF Len(stack) = 1
       THEN /\ schema' = FrameSchema(Top)
            /\ stack' = <<>>
            /\ pc' = "schemaDone"
       ELSE /\ stack' = [Pop EXCEPT ![Len(stack) - 1] =
                           WithProperty(stack[Len(stack) - 1], FrameSchema(Top))]
            /\ UNCHANGED <<schema, pc>>
  /\ UNCHANGED <<reg, root, maxDepth, defaultMsg>>
  /\ UNCHANGED <<normVars, textVars, importVars, hookVars, appVars,
               convVars>>

\* generateDefaultMessage(type, maxDepth) for the selected message
GenerateDefault ==
  /\ pc = "schemaDone"
  /\ \E d \in (-1)..MaxDepthBound :
       /\ maxDepth' = d
       /\ defaultMsg' = GenerateDefaultMessage(reg, reg[root], d, 0)
  /\ pc' = "generated"
  /\ UNCHANGED <<reg, root, stack, visitedTypes, schema>>
  /\ UNCHANGED <<normVars, textVars, importVars, hookVars, appVars,
               convVars>>

(***************************************************************************)
(* Descriptor registries handed to the schema deriver and the generator:   *)
(* every graph of two message types with up to MaxFields fields each       *)
(* (self references, mutual references, sibling references, one oneof      *)
(* group), a chain of three types, and one registry per kind of field.     *)
(***************************************************************************)
FieldNames == <<"f1", "f2", "f3", "f4", "f5", "f6">>

SeqsUpTo(S, n) == UNION {[1..len -> S] : len \in 0..n}

GraphTypes == {"int32", "A", "B"}

\* the fields of "A" may be members of its oneof group "choice"
AOptions == [type : GraphTypes, inOneof : BOOLEAN]

BOptions == [type : GraphTypes, inOneof : {FALSE}]

BuildMessage(name, opts) ==
  LET members == SelectSeq([i \in DOMAIN opts |-> IF opts[i].inOneof THEN FieldNames[i] ELSE ""],
                           LAMBDA n : n # "")
  IN Message(name,
             [i \in DOMAIN opts |-> Fld(FieldNames[i], opts[i].type)],
             IF members = <<>> THEN <<>> ELSE <<OneOf("choice", members)>>)

GraphRegistries ==
  { [n \in {"A", "B"} |-> IF n = "A" THEN BuildMessage("A", a) ELSE BuildMessage("B", b)] :
      a \in SeqsUpTo(AOptions, MaxFields), b \in SeqsUpTo(BOptions, MaxFields) }

\* message A { B b = 1; }  message B { C c = 1; int32 n = 2; }  message C { string v = 1; }
ChainRegistry ==
  [n \in {"A", "B", "C"} |->
     IF n = "A" THEN Message("A", <<Fld("b", "B")>>, <<>>)
     ELSE IF n = "B" THEN Message("B", <<Fld("c", "C"), Fld("n", "int32")>>, <<>>)
     ELSE Message("C", <<Fld("v", "string")>>, <<>>)]

\* the descriptors of the bundled google/protobuf files (field names in camel case)
WellKnownType(n) ==
  IF n \in WrapperNames THEN
    Message(n, <<Fld("value",
                     IF n = "google.protobuf.StringValue" THEN "string"
                     ELSE IF n = "google.protobuf.BytesValue" THEN "bytes"
                     ELSE IF n = "google.protobuf.BoolValue" THEN "bool"
                     ELSE IF n = "google.protobuf.FloatValue" THEN "float"
                     ELSE IF n = "google.protobuf.DoubleValue" THEN "double"
                     ELSE IF n = "google.protobuf.Int64Value" THEN "int64"
                     ELSE IF n = "google.protobuf.UInt32Value" THEN "uint32"
                     ELSE IF n = "google.protobuf.UInt64Value" THEN "uint64"
                     ELSE "int32")>>, <<>>)
  ELSE IF n \in {"google.protobuf.Timestamp", "google.protobuf.Duration"} THEN
    Message(n, <<Fld("seconds", "int64"), Fld("nanos", "int32")>>, <<>>)
  ELSE IF n = "google.protobuf.Struct" THEN
    Message(n, <<MapFld("fields", "google.protobuf.Value")>>, <<>>)
  ELSE IF n = "google.protobuf.Value" THEN
    Message(n,
            << Fld("nullValue", "google.protobuf.NullValue"), Fld("numberValue", "double"),
               Fld("stringValue", "string"), Fld("boolValue", "bool"),
               Fld("structValue", "google.protobuf.Struct"),
               Fld("listValue", "google.protobuf.ListValue") >>,
            << OneOf("kind", <<"nullValue", "numberValue", "stringValue", "boolValue",
                               "structValue", "listValue">>) >>)
  ELSE IF n = "google.protobuf.ListValue" THEN
    Message(n, <<Rep("values", "google.protobuf.Value")>>, <<>>)
  ELSE IF n = "google.protobuf.FieldMask" THEN
    Message(n, <<Rep("paths", "string")>>, <<>>)
  ELSE IF n = "google.protobuf.Any" THEN
    Message(n, <<Fld("typeUrl", "string"), Fld("value", "bytes")>>, <<>>)
  ELSE IF n = "google.protobuf.NullValue" THEN
    Enum(n, <<EnumVal(<<78, 85, 76, 76, 95, 86, 65, 76, 85, 69>>, 0)>>)
  ELSE Message(n, <<>>, <<>>)

\* the field of the message "K" of a registry of kinds
KindFields ==
  {Fld("f", t) : t \in {"int32", "double", "bool", "string", "bytes", "Status", "Sub",
                        "Strict", "Missing"} \cup GoogleProtobufNames}
  \cup {Rep("f", t) : t \in {"int32", "Status", "Sub"}}
  \cup {MapFld("f", t) : t \in {"int32", "Sub"}}
  \cup {Req("f", t) : t \in {"int32", "Sub"}}

\* message Sub { int32 v = 1; K k = 2; }  message Strict { required int32 id = 1; }
KindRegistry(field) ==
  [n \in {"K", "Sub", "Strict", "Status", "google.protobuf.NullValue"}
         \cup GoogleProtobufNames |->
     IF n = "K" THEN
       Message("K", <<field, Fld("a", "int32"), Fld("b", "Sub")>>, <<OneOf("pick", <<"a", "b">>)>>)
     ELSE IF n = "Sub" THEN Message("Sub", <<Fld("v", "int32"), Fld("k", "K")>>, <<>>)
     ELSE IF n = "Strict" THEN Message("Strict", <<Req("id", "int32")>>, <<>>)
     ELSE IF n = "Status" THEN StatusEnum
     ELSE WellKnownType(n)]

KindRegistries == {KindRegistry(field) : field \in KindFields}

Registries == GraphRegistries \cup {ChainRegistry} \cup KindRegistries

\* the message types a user can select
Selectable(R) == {n \in DOMAIN R : IsType(R[n]) /\ ~StartsWithGoogleProtobuf(n)}

(***************************************************************************)
(* A message is selected; its schema is derived and its default generated. *)
(***************************************************************************)
Init ==
  /\ reg \in Registries
  /\ root \in Selectable(reg)
  /\ pc = "idle"
  /\ stack = <<>>
  /\ visitedTypes = {}
  /\ schema = None
  /\ maxDepth = 2
  /\ defaultMsg = None
  /\ normType = "Msg"
  /\ normInput = JNull
  /\ normValue = JNull
  /\ normOps = <<>>
  /\ TextIdle
  /\ ImportIdle
  /\ HookIdle
  /\ AppIdle
  /\ ConvIdle

Next ==
  \/ GenerateJsonSchema
  \/ ConvertLeafField
  \/ ConvertCircularField
  \/ EnterType
  \/ ReturnType
  \/ GenerateDefault

Spec == Init /\ [][Next]_vars

\* the derivation is one synchronous call: a step that can be taken is taken
FairSpec == Spec /\ WF_vars(Next)

(***************************************************************************)
(* JSON Schema validation as the editor's JSON language service applies    *)
(* the schema handed to it (components/JsonEditor.tsx): the keywords the   *)
(* deriver emits.  Every number of the model is an integer.                *)
(***************************************************************************)
TypeMatches(v, t) ==
  IF t = "object" THEN v.k = "obj"
  ELSE IF t = "array" THEN v.k = "arr"
  ELSE IF t = "string" THEN v.k = "str"
  ELSE IF t = "boolean" THEN v.k = "bool"
  ELSE v.k = "num"

RECURSIVE Validates(_, _)
Validates(v, s) ==
  /\ "type" \in DOMAIN s => TypeMatches(v, s.type)
  /\ "enum" \in DOMAIN s => v \in Range(s.enum)
  /\ "oneOf" \in DOMAIN s =>
       Cardinality({i \in DOMAIN s.oneOf : Validates(v, s.oneOf[i])}) = 1
  /\ ("properties" \in DOMAIN s /\ v.k = "obj") =>
       \A key \in DOMAIN v.m \cap DOMAIN s.properties : Validates(v.m[key], s.properties[key])
  /\ ("required" \in DOMAIN s /\ v.k = "obj") => Range(s.required) \subseteq DOMAIN v.m
  /\ ("items" \in DOMAIN s /\ v.k = "arr") =>
       \A i \in DOMAIN v.e : Validates(v.e[i], s.items)

(***************************************************************************)
(* Claims about the schema deriver and the default value generator.        *)
(***************************************************************************)
SchemaReturned == pc \in {"schemaDone", "generated"}

\* the schema of the type of a field inside the schema of the field
TypeSchemaOf(field, fieldSchema) == IF field.repeated THEN fieldSchema.items ELSE fieldSchema

IsPlaceholderFor(s, typeId) ==
  /\ "type" \in DOMAIN s
  /\ s.type = "object"
  /\ "properties" \notin DOMAIN s
  /\ "description" \in DOMAIN s
  /\ \E i \in 1..(Len(s.description) - 1) :
       s.description[i] = "Circular reference to " /\ s.description[i + 1] = typeId

\* nesting depth of the object schemas of a schema
RECURSIVE SchemaDepth(_)
SchemaDepth(s) ==
  IF "items" \in DOMAIN s THEN SchemaDepth(s.items)
  ELSE IF "properties" \in DOMAIN s /\ DOMAIN s.properties # {}
    THEN 1 + (CHOOSE d \in {SchemaDepth(s.properties[key]) : key \in DOMAIN s.properties} :
                \A key \in DOMAIN s.properties : SchemaDepth(s.properties[key]) <= d)
  ELSE IF "type" \in DOMAIN s /\ s.type = "object" THEN 1
  ELSE 0

\* every field whose type is on the path from the root is a placeholder
RECURSIVE ReentriesArePlaceholders(_, _, _)
ReentriesArePlaceholders(s, type, path) ==
  \A i \in DOMAIN type.fields :
    LET field == type.fields[i]
        sub == TypeSchemaOf(field, s.properties[field.name])
        id == ResolvedType(reg, field).fullName
    IN CallsConvertType(reg, field) =>
         IF id \in path \cup {type.fullName}
           THEN IsPlaceholderFor(sub, id)
           ELSE "properties" \in DOMAIN sub =>
                  ReentriesArePlaceholders(sub, ResolvedType(reg, field), path \cup {type.fullName})

MessageTypes(R) == {n \in DOMAIN R : IsType(R[n])}

\* C1: the derivation terminates with a schema (the call stack never overflows,
\* so null is never returned), the schema nests no deeper than there are message
\* types, and every re-entry of a type that is being expanded is a placeholder.
C1_Terminates ==
  /\ <>SchemaReturned
  /\ [](pc # "schemaFailed" /\ Len(stack) <= Cardinality(MessageTypes(reg)))
  /\ [](SchemaReturned =>
          /\ SchemaDepth(schema) <= Cardinality(MessageTypes(reg)) + 1
          /\ ReentriesArePlaceholders(schema, reg[root], {}))

\* a self-referential type: message A { A f1 = 1; }
C1_Witness ==
  /\ pc = "schemaDone"
  /\ root = "A"
  /\ reg["A"].fields = <<Fld("f1", "A")>>
  /\ schema = [type |-> "object",
               properties |-> [key \in {"f1"} |-> PlaceholderSchema("A")]]

\* every field whose type is not on the path from the root is expanded in full,
\* wherever else the type was expanded before
RECURSIVE ExpandedOffPath(_, _, _)
ExpandedOffPath(s, type, path) ==
  /\ "properties" \in DOMAIN s
  /\ DOMAIN s.properties = {type.fields[i].name : i \in DOMAIN type.fields}
  /\ \A i \in DOMAIN type.fields :
       LET field == type.fields[i]
           sub == TypeSchemaOf(field, s.properties[field.name])
           id == ResolvedType(reg, field).fullName
       IN (CallsConvertType(reg, field) /\ id \notin path \cup {type.fullName}) =>
            ExpandedOffPath(sub, ResolvedType(reg, field), path \cup {type.fullName})

\* C2: visitedTypes holds exactly the ids of the types on the active recursion
\* path (each once); it is empty again when the root call has returned; and a
\* type that is not an ancestor is expanded in full in every sibling branch.
C2_PathScoped ==
  /\ visitedTypes = {stack[i].typeId : i \in DOMAIN stack}
  /\ \A i, j \in DOMAIN stack : stack[i].typeId = stack[j].typeId => i = j
  /\ SchemaReturned =>
       /\ visitedTypes = {}
       /\ ExpandedOffPath(schema, reg[root], {})

\* message A { B f1 = 1; B f2 = 2; }  message B { int32 f1 = 1; A f2 = 2; }
C2_Witness ==
  /\ pc = "schemaDone"
  /\ root = "A"
  /\ reg["A"].fields = <<Fld("f1", "B"), Fld("f2", "B")>>
  /\ reg["A"].oneofs = <<>>
  /\ reg["B"].fields = <<Fld("f1", "int32"), Fld("f2", "A")>>
  /\ schema.properties["f1"] = schema.properties["f2"]
  /\ DOMAIN schema.properties["f2"].properties = {"f1", "f2"}
  /\ schema.properties["f2"].properties["f2"] = PlaceholderSchema("A")

\* C3: the default message is valid against the schema derived for the same
\* descriptor, whatever maxDepth.
C3_RoundTrip == pc = "generated" => Validates(defaultMsg, schema)

\* a singular message field expanded by generateDefaultMessage
NestedMessageField(R, field) ==
  /\ ~field.repeated
  /\ ~field.map
  /\ field.type \notin PrimitiveTypes
  /\ IsType(ResolvedType(R, field))
  /\ ~StartsWithGoogleProtobuf(ResolvedType(R, field).fullName)

RECURSIVE OneofExclusive(_, _)
OneofExclusive(obj, type) ==
  /\ \A o \in Range(type.oneofs) :
       /\ Cardinality(DOMAIN obj.m \cap Range(o.fieldNames)) <= 1
       /\ DOMAIN obj.m \cap Range(o.fieldNames) \subseteq {o.fieldNames[1]}
  /\ \A key \in DOMAIN obj.m :
       NestedMessageField(reg, FieldByName(type, key)) =>
         OneofExclusive(obj.m[key], ResolvedType(reg, FieldByName(type, key)))

\* C9: the default message, and every message nested in it, holds at most one
\* member of each oneof group, and only the first declared one.
C9_OneofExclusive == pc = "generated" => OneofExclusive(defaultMsg, reg[root])

\* message A { oneof choice { B f1 = 1; int32 f2 = 2; } }
C9_Witness ==
  /\ pc = "generated"
  /\ root = "A"
  /\ maxDepth = 2
  /\ reg["A"].oneofs = <<OneOf("choice", <<"f1", "f2">>)>>
  /\ reg["A"].fields[1].type = "B"
  /\ DOMAIN defaultMsg.m = {"f1"}

RECURSIVE DepthBounded(_, _, _)
DepthBounded(obj, type, currentDepth) ==
  \A key \in DOMAIN obj.m :
    LET field == FieldByName(type, key)
        sub == ResolvedType(reg, field)
    IN NestedMessageField(reg, field) =>
         IF currentDepth + 1 < maxDepth
           THEN /\ obj.m[key].k = "obj"
                /\ {f.name : f \in {g \in Range(sub.fields) : g.name \notin OneofFieldNames(sub)}}
                     \subseteq DOMAIN obj.m[key].m
                /\ DepthBounded(obj.m[key], sub, currentDepth + 1)
           ELSE obj.m[key] = JObj(EmptyMap)

\* C10: a singular message field at depth currentDepth is expanded when
\* currentDepth + 1 < maxDepth and is {} otherwise; with maxDepth = 2 and the
\* chain A -> B -> C the field of type C inside the default of B is {}.
C10_DepthBound ==
  pc = "generated" =>
    /\ DepthBounded(defaultMsg, reg[root], 0)
    /\ (reg = ChainRegistry /\ root = "A" /\ maxDepth = 2) =>
         defaultMsg.m["b"] = JObj([key \in {"c", "n"} |->
                                     IF key = "c" THEN JObj(EmptyMap) ELSE JNum(0)])

C10_Witness ==
  /\ pc = "generated"
  /\ reg = ChainRegistry
  /\ root = "A"
  /\ maxDepth = 2
  /\ defaultMsg.m["b"].m["c"] = JObj(EmptyMap)

(***************************************************************************)
(* Termination and depth of the generator.                                 *)
(***************************************************************************)
Max(a, b) == IF a >= b THEN a ELSE b

MaxOf(S) == IF S = {} THEN 0 ELSE CHOOSE x \in S : \A y \in S : y <= x

\* the values of currentDepth with which generateDefaultMessage is invoked,
\* the first call included
RECURSIVE GeneratorCalls(_, _, _, _)
GeneratorCalls(R, type, maxDepth_, currentDepth) ==
  {currentDepth} \cup
  IF DepthReached(maxDepth_, currentDepth) THEN {}
  ELSE LET oneofFields == OneofFieldNames(type)
           generated == {f \in Range(type.fields) :
                           f.name \in OneofGenerated(type) \/ f.name \notin oneofFields}
           nested == {f \in generated : /\ NestedMessageField(R, f)
                                        /\ ~NestedDepthReached(maxDepth_, currentDepth)}
       IN UNION {GeneratorCalls(R, ResolvedType(R, f), maxDepth_, currentDepth + 1) :
                   f \in nested}

\* the number of message-typed fields nested in one another in a value
RECURSIVE MessageDepth(_, _)
MessageDepth(obj, type) ==
  MaxOf({ LET field == FieldByName(type, key)
              sub == ResolvedType(reg, field)
          IN IF field.repeated \/ field.map \/ field.type \in PrimitiveTypes \/ ~IsType(sub)
               THEN 0
             ELSE IF StartsWithGoogleProtobuf(sub.fullName) \/ obj.m[key].k # "obj"
               THEN 1
             ELSE 1 + MessageDepth(obj.m[key], sub)
          : key \in DOMAIN obj.m })

GeneratorReturns == pc = "schemaDone" ~> pc = "generated"

\* C11 as stated: the generator returns for every graph and every maxDepth,
\* and the message-nesting depth of its result never exceeds maxDepth.
C11_DepthWithinMaxDepth ==
  /\ GeneratorReturns
  /\ [](pc = "generated" => MessageDepth(defaultMsg, reg[root]) <= maxDepth)

\* C11: the generator returns for every graph, recursive ones included, and
\* every maxDepth; every recursive call has currentDepth < maxDepth, and the
\* message-nesting depth of the result never exceeds max(maxDepth, 0).
C11_Terminates ==
  /\ GeneratorReturns
  /\ [](pc = "generated" =>
          /\ \A d \in GeneratorCalls(reg, reg[root], maxDepth, 0) :
               d = 0 \/ d < maxDepth
          /\ MessageDepth(defaultMsg, reg[root]) <= Max(maxDepth, 0))

\* message A { A f1 = 1; } generated to the full depth
C11_Witness ==
  /\ pc = "generated"
  /\ root = "A"
  /\ maxDepth = MaxDepthBound
  /\ \E i \in DOMAIN reg["A"].fields : reg["A"].fields[i].type = "A"
  /\ MessageDepth(defaultMsg, reg[root]) = MaxDepthBound

\* the repeated fields of a message object returned at depth currentDepth and
\* of the messages expanded inside it
RECURSIVE RepeatedAreArrays(_, _, _)
RepeatedAreArrays(obj, type, currentDepth) ==
  /\ \A f \in Range(type.fields) :
       f.repeated => /\ f.name \in DOMAIN obj.m
                     /\ obj.m[f.name] = JArr(<<>>)
  /\ \A key \in DOMAIN obj.m :
       (/\ NestedMessageField(reg, FieldByName(type, key))
        /\ ~NestedDepthReached(maxDepth, currentDepth)) =>
         RepeatedAreArrays(obj.m[key], ResolvedType(reg, FieldByName(type, key)),
                           currentDepth + 1)

\* C12: whatever maxDepth is, the object returned by generateDefaultMessage
\* holds every repeated field of its type with the value [].
C12_RepeatedAlwaysArray ==
  pc = "generated" => RepeatedAreArrays(defaultMsg, reg[root], 0)

(***************************************************************************)
(* Inputs of the normalizer passes: one registry with an enum, a bytes     *)
(* field, a nested and a repeated message field, and bounded JSON values.  *)
(***************************************************************************)
\* largest length of the enumerated strings
MaxStrLen == 3

\* largest number of keys of an enumerated object with several keys
MaxKeys == 2

NormRegistry ==
  [n \in {"Status", "Msg", "Inner"} |->
     IF n = "Status" THEN StatusEnum
     ELSE IF n = "Msg" THEN
       Message("Msg",
               << Fld("status", "Status"), Fld("data", "bytes"), Fld("name", "string"),
                  Fld("child", "Inner"), Rep("items", "Inner"), Rep("tags", "Status"),
                  Rep("blobs", "bytes") >>,
               <<>>)
     ELSE
       Message("Inner", << Fld("status", "Status"), Fld("data", "bytes") >>, <<>>)]

\* 'A', '=', ' ', 'e' with an acute accent (two bytes of UTF-8)
Alphabet == {65, 61, 32, 233}

RECURSIVE StringsUpTo(_)
StringsUpTo(n) ==
  IF n = 0 THEN {<<>>}
  ELSE LET shorter == StringsUpTo(n - 1) IN
       shorter \cup {Append(s, c) : s \in {t \in shorter : Len(t) = n - 1}, c \in Alphabet}

ShortStrings == StringsUpTo(MaxStrLen)

NamedStrings ==
  {<<>>, S_ACTIVE, S_INACTIVE, S_UNKNOWN, S_hello_world, S_hello_world_b64,
   S_Hello_b64, S_Hello_World_b64}

Leaves ==
  {JNull, JNum(0), JNum(1), JBool(TRUE)} \cup {JStr(s) : s \in NamedStrings}

InnerObjects ==
  { JObj(EmptyMap),
    JObj([key \in {"status"} |-> JStr(S_INACTIVE)]),
    JObj([key \in {"status"} |-> JStr(S_UNKNOWN)]),
    JObj([key \in {"data"} |-> JStr(S_hello_world)]),
    JObj([key \in {"data"} |-> JStr(S_Hello_b64)]),
    JObj([key \in {"status", "data"} |->
            IF key = "status" THEN JStr(S_ACTIVE) ELSE JStr(S_hello_world)]),
    JObj([key \in {"other"} |-> JStr(S_ACTIVE)]) }

Arrays ==
  {JArr(<<>>)} \cup {JArr(<<v>>) : v \in InnerObjects}
  \cup { JArr(<<JStr(S_ACTIVE), JStr(S_UNKNOWN)>>),
         JArr(<<JStr(S_hello_world), JStr(S_Hello_b64)>>),
         JArr(<<JNull, JNum(1)>>),
         JArr(<<JObj([key \in {"status"} |-> JStr(S_ACTIVE)]), JNull>>),
         JArr(<<JArr(<<JObj([key \in {"data"} |-> JStr(S_hello_world)])>>)>>) }

FieldValues == Leaves \cup InnerObjects \cup Arrays

NormKeys == {"status", "data", "name", "child", "items", "tags", "blobs", "extra"}

PairKeys == {"status", "data", "child", "extra"}

PairValues ==
  { JStr(S_ACTIVE), JStr(S_hello_world), JStr(S_Hello_World_b64), JNum(1),
    JObj([key \in {"status", "data"} |->
            IF key = "status" THEN JStr(S_INACTIVE) ELSE JStr(S_hello_world)]) }

SingleKeyObjects ==
  {JObj([key \in {n} |-> v]) : n \in NormKeys, v \in FieldValues}

StringObjects ==
  {JObj([key \in {n} |-> JStr(s)]) : n \in {"status", "data"}, s \in ShortStrings}

SeveralKeyObjects ==
  UNION { {JObj(m) : m \in [K -> PairValues]} :
          K \in {L \in SUBSET PairKeys : Cardinality(L) \in 2..MaxKeys} }

NormInputs ==
  {JNull, JNum(1), JStr(S_ACTIVE), JObj(EmptyMap)}
  \cup SingleKeyObjects \cup StringObjects \cup SeveralKeyObjects
  \cup {JArr(<<v>>) : v \in InnerObjects} \cup {JArr(<<JStr(S_ACTIVE), JNull>>)}

(***************************************************************************)
(* The normalizer passes as operations: useConversion.convert applies the  *)
(* enum pass and the bytes pass to the parsed JSON; here either pass may   *)
(* be applied to the current value, up to MaxPasses times.                 *)
(***************************************************************************)
NormInit ==
  /\ reg = NormRegistry
  /\ root = "Msg"
  /\ pc = "normalize"
  /\ stack = <<>>
  /\ visitedTypes = {}
  /\ schema = None
  /\ maxDepth = 0
  /\ defaultMsg = None
  /\ normType \in {"Msg", "Inner"}
  /\ normInput \in NormInputs
  /\ normValue = normInput
  /\ normOps = <<>>
  /\ TextIdle
  /\ ImportIdle
  /\ HookIdle
  /\ AppIdle
  /\ ConvIdle

ApplyEnumPass ==
  /\ pc = "normalize"
  /\ Len(normOps) < MaxPasses
  /\ normValue' = NormalizeEnumValues(reg, normValue, reg[normType])
  /\ normOps' = Append(normOps, "enum")
  /\ UNCHANGED <<normType, normInput>>
  /\ UNCHANGED <<schemaVars, textVars, importVars, hookVars, appVars,
               convVars>>

ApplyBytesPass ==
  /\ pc = "normalize"
  /\ Len(normOps) < MaxPasses
  /\ normValue' = NormalizeBytesFields(reg, normValue, reg[normType])
  /\ normOps' = Append(normOps, "bytes")
  /\ UNCHANGED <<normType, normInput>>
  /\ UNCHANGED <<schemaVars, textVars, importVars, hookVars, appVars,
               convVars>>

NormNext == ApplyEnumPass \/ ApplyBytesPass

NormSpec == NormInit /\ [][NormNext]_vars

(***************************************************************************)
(* Claims about the normalizer passes, checked under NormSpec.             *)
(***************************************************************************)
LastOp == normOps[Len(normOps)]

\* the string held by the bytes field "data" of an object, if any
DataStrings(v) ==
  IF v.k = "obj" /\ "data" \in DOMAIN v.m /\ v.m["data"].k = "str"
    THEN {v.m["data"].s} ELSE {}

\* characters of [A-Za-z0-9+/], then zero to two '=', total length a multiple of 4
ClaimedBase64(s) ==
  /\ \E p \in 0..2 :
       /\ p <= Len(s)
       /\ \A i \in 1..(Len(s) - p) : IsBase64Char(s[i])
       /\ \A i \in (Len(s) - p + 1)..Len(s) : s[i] = 61
  /\ Len(s) % 4 = 0

\* C4: both passes are idempotent: a pass applied to its own output changes
\* nothing (normalize(normalize(x)) = normalize(x)).
C4_Idempotent ==
  [][(normOps # <<>> /\ normOps' = Append(normOps, LastOp)) => normValue' = normValue]_vars

\* C5: isValidBase64(s) is true exactly when s is base64 characters followed by
\* zero to two '=' and the length of s, padding included, is a multiple of 4.
C5_IsValidBase64 ==
  \A s \in DataStrings(normInput) : IsValidBase64(s) <=> ClaimedBase64(s)

\* C6: the bytes pass leaves the non-empty string of a bytes field unchanged
\* when it is valid base64 and otherwise replaces it with the base64 of its
\* UTF-8 bytes.
C6_BytesPass ==
  (normOps = <<"bytes">> /\ normValue.k = "obj")
    => \A s \in DataStrings(normInput) :
         s # <<>> =>
           normValue.m["data"] =
             IF ClaimedBase64(s) THEN JStr(s) ELSE JStr(Utf8ToBase64(s))

\* what the enum {ACTIVE: 1, INACTIVE: 0} makes of the value of an enum field
ExpectedStatus(v) ==
  IF v = JStr(S_ACTIVE) THEN JNum(1)
  ELSE IF v = JStr(S_INACTIVE) THEN JNum(0)
  ELSE v

StatusString(v) == v.k = "obj" /\ "status" \in DOMAIN v.m /\ v.m["status"].k = "str"

C8_Commute ==
  normOps = <<"enum", "bytes">>
    => normValue = NormalizeEnumValues(reg,
                     NormalizeBytesFields(reg, normInput, reg[normType]), reg[normType])

C8_Witness ==
  /\ normOps = <<"enum", "bytes">>
  /\ normType = "Msg"
  /\ normInput = JObj([key \in {"status", "data"} |->
                         IF key = "status" THEN JStr(S_ACTIVE) ELSE JStr(S_hello_world)])
  /\ normValue = JObj([key \in {"status", "data"} |->
                         IF key = "status" THEN JNum(1) ELSE JStr(S_hello_world_b64)])

\* C22: neither pass ever raises: every application returns a value, and a
\* non-array object held by a repeated message field is passed through.
C22_NeverRaise ==
  /\ normValue # Thrown
  /\ (/\ Len(normOps) = 1 /\ normType = "Msg" /\ normInput.k = "obj"
      /\ "items" \in DOMAIN normInput.m /\ normInput.m["items"].k = "obj")
       => (normValue.k = "obj" /\ normValue.m["items"] = normInput.m["items"])

\* the rule of the enum pass for a singular value of an enum field
SingularEnumValue(value, enumType) ==
  IF value.k = "str" /\ HasEnumName(enumType, value.s)
    THEN JNum(EnumNumber(enumType, value.s)) ELSE value

\* the rule of the bytes pass for a singular value of a bytes field
SingularBytesValue(value) ==
  IF value.k = "str" /\ value.s # <<>> THEN BytesString(value) ELSE value

\* the array held by a key of the input object, if any
ArrayAt(v, key) == v.k = "obj" /\ key \in DOMAIN v.m /\ v.m[key].k = "arr"

\* C23: both passes map the array of a repeated field element-wise by the
\* rule for a singular value of that field: repeated enum (tags), repeated
\* bytes (blobs) and repeated message (items).
C23_ElementWise ==
  (Len(normOps) = 1 /\ normType = "Msg" /\ normValue # Thrown) =>
    /\ (normOps = <<"enum">> /\ ArrayAt(normInput, "tags")) =>
         normValue.m["tags"] =
           JArr([i \in DOMAIN normInput.m["tags"].e |->
                   SingularEnumValue(normInput.m["tags"].e[i], reg["Status"])])
    /\ (normOps = <<"bytes">> /\ ArrayAt(normInput, "blobs")) =>
         normValue.m["blobs"] =
           JArr([i \in DOMAIN normInput.m["blobs"].e |->
                   SingularBytesValue(normInput.m["blobs"].e[i])])
    /\ ArrayAt(normInput, "items") =>
         normValue.m["items"] =
           JArr([i \in DOMAIN normInput.m["items"].e |->
                   IF normOps = <<"enum">>
                     THEN NormalizeEnumValues(reg, normInput.m["items"].e[i], reg["Inner"])
                     ELSE NormalizeBytesFields(reg, normInput.m["items"].e[i], reg["Inner"])])

IsScalarLeaf(v) == v.k \in {"null", "num", "bool", "str"}

\* the value is what the pass rewrites in that field
IsTarget(pass, R, field, value) ==
  IF pass = "enum" THEN IsEnum(ResolvedType(R, field)) /\ value.k = "str"
  ELSE field.type = "bytes" /\ value.k = "str" /\ value.s # <<>>

\* the frame of a pass over an object and, through message fields, over the
\* objects nested in it
RECURSIVE FrameHolds(_, _, _, _, _)
FrameHolds(pass, R, in, out, type) ==
  /\ out.k = "obj"
  /\ DOMAIN out.m = DOMAIN in.m
  /\ \A key \in DOMAIN in.m :
       LET value == in.m[key] IN
       IF ~HasField(type, key) THEN out.m[key] = value
       ELSE
         LET field == FieldByName(type, key)
             resolvedType == ResolvedType(R, field)
         IN
         /\ (IsScalarLeaf(value) /\ ~IsTarget(pass, R, field, value)) => out.m[key] = value
         /\ (IsType(resolvedType) /\ value.k = "obj" /\ ~field.repeated) =>
              FrameHolds(pass, R, value, out.m[key], resolvedType)
         /\ (IsType(resolvedType) /\ value.k = "arr" /\ field.repeated) =>
              /\ out.m[key].k = "arr"
              /\ DOMAIN out.m[key].e = DOMAIN value.e
              /\ \A i \in DOMAIN value.e :
                   value.e[i].k = "obj" =>
                     FrameHolds(pass, R, value.e[i], out.m[key].e[i], resolvedType)

JBytes(b) == [k |-> "bytes", b |-> b]

\* the code units of a field name, as the template strings copy them
NameUnits(fieldName) ==
  IF fieldName = "count" THEN <<99, 111, 117, 110, 116>>
  ELSE IF fieldName = "name" THEN <<110, 97, 109, 101>>
  ELSE IF fieldName = "flag" THEN <<102, 108, 97, 103>>
  ELSE IF fieldName = "data" THEN <<100, 97, 116, 97>>
  ELSE IF fieldName = "status" THEN <<115, 116, 97, 116, 117, 115>>
  ELSE IF fieldName = "nested" THEN <<110, 101, 115, 116, 101, 100>>
  ELSE IF fieldName = "tags" THEN <<116, 97, 103, 115>>
  ELSE <<63>>

RECURSIVE Flatten(_)
Flatten(seqs) == IF seqs = <<>> THEN <<>> ELSE Head(seqs) \o Flatten(Tail(seqs))

\* lines.join('\n')
RECURSIVE JoinLines(_)
JoinLines(lines) ==
  IF lines = <<>> THEN <<>>
  ELSE IF Len(lines) = 1 THEN lines[1]
  ELSE lines[1] \o <<10>> \o JoinLines(Tail(lines))

\* '  '.repeat(indentLevel)
Indent(indentLevel) == [i \in 1..(2 * indentLevel) |-> 32]

RECURSIVE DecimalDigits(_)
DecimalDigits(n) ==
  IF n < 10 THEN <<48 + n>> ELSE Append(DecimalDigits(n \div 10), 48 + (n % 10))

\* String(value) and `${value}`
StringOf(value) ==
  IF value.k = "num"
    THEN IF value.n < 0 THEN <<45>> \o DecimalDigits(0 - value.n) ELSE DecimalDigits(value.n)
  ELSE IF value.k = "str" THEN value.s
  ELSE IF value.k = "bool"
    THEN IF value.b THEN <<116, 114, 117, 101>> ELSE <<102, 97, 108, 115, 101>>
  ELSE IF value.k = "null" THEN <<110, 117, 108, 108>>
  ELSE IF value.k = "obj"
    THEN <<91, 111, 98, 106, 101, 99, 116, 32, 79, 98, 106, 101, 99, 116, 93>>
  ELSE <<>>

HexDigit(d) == IF d < 10 THEN 48 + d ELSE 87 + d

\* code.toString(16)
RECURSIVE ToHex(_)
ToHex(code) ==
  IF code < 16 THEN <<HexDigit(code)>>
  ELSE Append(ToHex(code \div 16), HexDigit(code % 16))

\* '\\x' + code.toString(16).padStart(2, '0')
HexEscape(code) ==
  <<92, 120>> \o (IF Len(ToHex(code)) < 2 THEN <<48>> \o ToHex(code) ELSE ToHex(code))

EscapeUnit(code) ==
  IF code = 34 THEN <<92, 34>>
  ELSE IF code = 92 THEN <<92, 92>>
  ELSE IF code = 10 THEN <<92, 110>>
  ELSE IF code = 13 THEN <<92, 114>>
  ELSE IF code = 9 THEN <<92, 116>>
  ELSE IF code < 32 \/ code > 126 THEN HexEscape(code)
  ELSE <<code>>

EscapeString(str) ==
  <<34>> \o Flatten([i \in DOMAIN str |-> EscapeUnit(str[i])]) \o <<34>>

\* new TextDecoder('utf-8', {fatal: false}).decode(value): one- and two-octet
\* sequences; any other octet decodes to U+FFFD
RECURSIVE Utf8Decode(_)
Utf8Decode(bytes) ==
  IF bytes = <<>> THEN <<>>
  ELSE IF bytes[1] < 128 THEN <<bytes[1]>> \o Utf8Decode(Tail(bytes))
  ELSE IF /\ bytes[1] >= 194 /\ bytes[1] <= 223
          /\ Len(bytes) >= 2 /\ bytes[2] >= 128 /\ bytes[2] <= 191
    THEN <<(bytes[1] - 192) * 64 + (bytes[2] - 128)>> \o Utf8Decode(Tail(Tail(bytes)))
  ELSE <<65533>> \o Utf8Decode(Tail(bytes))

\* a plausible slip: the numeral is written even when a name is found
GetEnumNameNumeral(value, enumType) == StringOf(value)

GetEnumName(value, enumType) ==
  IF value.k = "str" THEN value.s
  ELSE IF value.k = "num" /\ \E i \in DOMAIN enumType.values : enumType.values[i].number = value.n
    THEN LET first == CHOOSE i \in DOMAIN enumType.values :
                        /\ enumType.values[i].number = value.n
                        /\ \A j \in 1..(i - 1) : enumType.values[j].number # value.n
         IN enumType.values[first].name
  ELSE StringOf(value)

IsDefaultValue(R, value, field) ==
  LET resolvedType == ResolvedType(R, field) IN
  IF value = JNull THEN TRUE
  ELSE IF resolvedType # None THEN
    IF IsEnum(resolvedType)
      THEN \/ (Len(resolvedType.values) > 0 /\ value = JNum(resolvedType.values[1].number))
           \/ value = JNum(0)
      ELSE FALSE
  ELSE IF field.type = "bool" THEN value = JBool(FALSE)
  ELSE IF field.type \in {"string", "bytes"} THEN value = JStr(<<>>)
  ELSE IF field.type \in PrimitiveTypes THEN value = JNum(0) \/ value = JStr(<<48>>)
  ELSE FALSE

\* typeof value === 'object' && !Array.isArray(value)
IsNonArrayObject(value) == value.k \in {"obj", "null", "bytes"}

\* a plausible slip: the keys of the message object drive the loop
ObjectKeysInOrder(type, objKeys) == SelectSeq(objKeys, LAMBDA n : HasField(type, n))

\* Object.keys(type.fields)
FieldNamesInOrder(type, objKeys) == [i \in DOMAIN type.fields |-> type.fields[i].name]

RECURSIVE MessageToProtoText(_, _, _, _, _)
RECURSIVE FormatFieldValue(_, _, _, _, _, _)

FormatFieldValue(R, K, fieldName, value, field, indentLevel) ==
  LET resolvedType == ResolvedType(R, field)
      indent == Indent(indentLevel)
      label == indent \o NameUnits(fieldName) \o <<58, 32>>
  IN
  IF resolvedType # None /\ IsEnum(resolvedType)
    THEN label \o GetEnumName(value, resolvedType)
  ELSE IF resolvedType # None /\ IsNonArrayObject(value) THEN
    LET nestedText == MessageToProtoText(R, K, value, resolvedType, indentLevel + 1) IN
    IF nestedText # <<>>
      THEN label \o <<123, 10>> \o nestedText \o <<10>> \o indent \o <<125>>
      ELSE label \o <<123, 125>>
  ELSE IF field.type = "bytes" THEN
    label \o EscapeString(IF value.k = "str" THEN value.s
                          ELSE IF value.k = "bytes" THEN Utf8Decode(value.b)
                          ELSE StringOf(value))
  ELSE IF value.k = "str" THEN label \o EscapeString(value.s)
  ELSE label \o StringOf(value)

MessageToProtoText(R, K, message, type, indentLevel) ==
  IF message.k # "obj" THEN <<>>
  ELSE
    LET objKeys == SelectSeq(K, LAMBDA n : n \in DOMAIN message.m)
        order == FieldNamesInOrder(type, objKeys)
        LinesOf(fieldName) ==
          LET field == FieldByName(type, fieldName)
              value == message.m[fieldName]
          IN
          IF fieldName \notin DOMAIN message.m THEN <<>>
          ELSE IF field.repeated /\ value.k = "arr" THEN
            [i \in DOMAIN value.e |->
               FormatFieldValue(R, K, fieldName, value.e[i], field, indentLevel)]
          ELSE IF /\ ~field.repeated /\ ~field.map /\ IsDefaultValue(R, value, field)
                  /\ ~(ResolvedType(R, field) # None /\ IsNonArrayObject(value))
            THEN <<>>
          ELSE <<FormatFieldValue(R, K, fieldName, value, field, indentLevel)>>
    IN JoinLines(Flatten([i \in DOMAIN order |-> LinesOf(order[i])]))

(***************************************************************************)
(* The serializer as an operation: useConversion.convert hands the message *)
(* to messageToProtoText with indentLevel 0.                               *)
(***************************************************************************)
\* largest length of the strings handed to escapeString
MaxEscLen == 2

\* message Doc { int32 count = 1; string name = 2; bool flag = 3; bytes data = 4;
\*               Status status = 5; Inner nested = 6; repeated Status tags = 7; }
\* message Inner { int32 count = 1; string name = 2; Inner nested = 3; }
TextRegistry ==
  [n \in {"Doc", "Inner", "Status"} |->
     IF n = "Doc" THEN
       Message("Doc", <<Fld("count", "int32"), Fld("name", "string"), Fld("flag", "bool"),
                        Fld("data", "bytes"), Fld("status", "Status"),
                        Fld("nested", "Inner"), Rep("tags", "Status")>>, <<>>)
     ELSE IF n = "Inner" THEN
       Message("Inner", <<Fld("count", "int32"), Fld("name", "string"),
                          Fld("nested", "Inner")>>, <<>>)
     ELSE StatusEnum]

\* a key the object does not have (obj[fieldName] === undefined)
Absent == [k |-> "undefined"]

MkObj(f) == JObj([key \in {n \in DOMAIN f : f[n] # Absent} |-> f[key]])

\* '"', '\', newline, carriage return, tab, U+0001, 'A', '~', DEL, U+00E9, U+4E2D
EscapeAlphabet == {34, 92, 10, 13, 9, 1, 65, 126, 127, 233, 20013}

EscapeStrings == SeqsUpTo(EscapeAlphabet, MaxEscLen)

ScalarInputs ==
  {MkObj([count |-> c, name |-> n, flag |-> b, data |-> d]) :
     c \in {Absent, JNum(0), JNum(5), JNum(-12)},
     n \in {Absent, JStr(<<>>), JStr(<<65>>)},
     b \in {Absent, JBool(FALSE), JBool(TRUE)},
     d \in {Absent, JStr(<<>>), JStr(<<65>>), JBytes(<<>>), JBytes(<<72, 195, 169, 255>>)}}

InnerValues ==
  {JNull, MkObj([count |-> Absent]),
   MkObj([count |-> JNum(0), name |-> JStr(<<>>)]),
   MkObj([count |-> JNum(5), name |-> JStr(<<65>>)]),
   MkObj([nested |-> MkObj([count |-> Absent])]),
   MkObj([count |-> JNum(5), nested |-> MkObj([name |-> JStr(<<65>>)])])}

StructuredInputs ==
  {MkObj([count |-> c, status |-> e, nested |-> m, tags |-> t]) :
     c \in {Absent, JNum(5)},
     e \in {Absent, JNum(0), JNum(1), JNum(7), JStr(S_ACTIVE)},
     m \in {Absent} \cup InnerValues,
     t \in {Absent, JArr(<<>>), JArr(<<JNum(1)>>), JArr(<<JNum(0), JNum(7)>>),
            JArr(<<JStr(S_UNKNOWN), JNum(1)>>)}}

EscapeInputs ==
  {MkObj([count |-> JNum(5), name |-> JStr(str)]) : str \in EscapeStrings}

TextInputs == ScalarInputs \cup StructuredInputs \cup EscapeInputs

DeclaredOrder == <<"count", "name", "flag", "data", "status", "nested", "tags">>

ReverseOrder == [i \in DOMAIN DeclaredOrder |-> DeclaredOrder[Len(DeclaredOrder) + 1 - i]]

\* the order in which the message object holds its own keys
KeyOrders == {DeclaredOrder, ReverseOrder}

TextInit ==
  /\ reg = TextRegistry
  /\ root = "Doc"
  /\ pc = "text"
  /\ stack = <<>>
  /\ visitedTypes = {}
  /\ schema = None
  /\ maxDepth = 0
  /\ defaultMsg = None
  /\ normType = "Msg"
  /\ normInput = JNull
  /\ normValue = JNull
  /\ normOps = <<>>
  /\ textMsg \in TextInputs
  /\ textKeys \in KeyOrders
  /\ textOut = <<>>
  /\ ImportIdle
  /\ HookIdle
  /\ AppIdle
  /\ ConvIdle

Serialize ==
  /\ pc = "text"
  /\ textOut' = MessageToProtoText(reg, textKeys, textMsg, reg[root], 0)
  /\ pc' = "textDone"
  /\ UNCHANGED <<reg, root, stack, visitedTypes, schema, maxDepth, defaultMsg>>
  /\ UNCHANGED <<textMsg, textKeys>>
  /\ UNCHANGED <<normVars, importVars, hookVars, appVars,
               convVars>>

TextNext == Serialize

TextSpec == TextInit /\ [][TextNext]_vars

(***************************************************************************)
(* Claims about the text serializer.                                       *)
(***************************************************************************)
RECURSIVE SplitLines(_)
SplitLines(text) ==
  IF text = <<>> THEN <<>>
  ELSE LET breaks == {i \in DOMAIN text : text[i] = 10} IN
       IF breaks = {} THEN <<text>>
       ELSE LET first == CHOOSE i \in breaks : \A j \in breaks : i <= j
            IN <<SubSeq(text, 1, first - 1)>> \o SplitLines(SubSeq(text, first + 1, Len(text)))

StartsWith(text, prefix) ==
  /\ Len(text) >= Len(prefix)
  /\ SubSeq(text, 1, Len(prefix)) = prefix

\* the lines of the outermost message: not indented and not a closing brace
TopLines(text) ==
  SelectSeq(SplitLines(text), LAMBDA l : l # <<>> /\ l[1] # 32 /\ l # <<125>>)

\* the line starts with the field's name, followed by ':' or by a space
LineNamesField(line, fieldName) ==
  \/ StartsWith(line, NameUnits(fieldName) \o <<58>>)
  \/ StartsWith(line, NameUnits(fieldName) \o <<32>>)

LinesFor(text, fieldName) ==
  SelectSeq(TopLines(text), LAMBDA l : LineNamesField(l, fieldName))

SingularScalar(field) == ~field.repeated /\ ~field.map /\ field.type \in PrimitiveTypes

\* the value is the zero value of the field's scalar type
HoldsZero(value, field) ==
  IF field.type = "bool" THEN value = JBool(FALSE)
  ELSE IF field.type = "string" THEN value = JStr(<<>>)
  ELSE IF field.type = "bytes" THEN value \in {JStr(<<>>), JBytes(<<>>)}
  ELSE value = JNum(0)

\* C13: no line is emitted for a singular scalar field that holds the zero
\* value of its type (0, false, the empty string, empty bytes).
C13_ZeroScalarsOmitted ==
  pc = "textDone" =>
    \A f \in Range(reg[root].fields) :
      (/\ SingularScalar(f)
       /\ f.name \in DOMAIN textMsg.m
       /\ HoldsZero(textMsg.m[f.name], f)) => LinesFor(textOut, f.name) = <<>>

\* the block the claim describes for a message field at the outermost level
NestedBlockEmitted(lines, fieldName, bodyLines) ==
  IF bodyLines = <<>>
    THEN \E i \in DOMAIN lines : lines[i] = NameUnits(fieldName) \o <<32, 123, 125>>
    ELSE \E i \in DOMAIN lines :
           /\ lines[i] = NameUnits(fieldName) \o <<32, 123>>
           /\ i + Len(bodyLines) + 1 <= Len(lines)
           /\ SubSeq(lines, i + 1, i + Len(bodyLines)) = bodyLines
           /\ \A j \in DOMAIN bodyLines : StartsWith(bodyLines[j], <<32, 32>>)
           /\ lines[i + Len(bodyLines) + 1] = <<125>>

\* C14: a present singular message field is emitted as `name { body }`, the
\* body indented two spaces, or as `name {}` when the body is empty.
C14_MessageFieldEmitted ==
  pc = "textDone" =>
    \A f \in Range(reg[root].fields) :
      (/\ NestedMessageField(reg, f)
       /\ f.name \in DOMAIN textMsg.m
       /\ textMsg.m[f.name].k = "obj") =>
        NestedBlockEmitted(SplitLines(textOut), f.name,
                           SplitLines(MessageToProtoText(reg, textKeys, textMsg.m[f.name],
                                                         ResolvedType(reg, f), 1)))

\* the text the claim expects for the number n of an enum
IsEnumTextOf(text, n, enumType) ==
  IF \E i \in DOMAIN enumType.values : enumType.values[i].number = n
    THEN \E i \in DOMAIN enumType.values :
           enumType.values[i].number = n /\ text = enumType.values[i].name
    ELSE text = StringOf(JNum(n))

ValueTextOf(line, fieldName) ==
  SubSeq(line, Len(NameUnits(fieldName)) + 3, Len(line))

\* C15: an emitted enum field, singular or an element of a repeated field,
\* whose value is a number is written as the name the enum gives that
\* number, and as the numeral when the enum has no name for it.
C15_EnumNames ==
  pc = "textDone" =>
    \A f \in Range(reg[root].fields) :
      (/\ ResolvedType(reg, f) # None
       /\ IsEnum(ResolvedType(reg, f))
       /\ f.name \in DOMAIN textMsg.m) =>
        LET value == textMsg.m[f.name]
            lines == LinesFor(textOut, f.name)
        IN IF f.repeated /\ value.k = "arr" THEN
             /\ Len(lines) = Len(value.e)
             /\ \A i \in DOMAIN value.e :
                  value.e[i].k = "num" =>
                    IsEnumTextOf(ValueTextOf(lines[i], f.name), value.e[i].n,
                                 ResolvedType(reg, f))
           ELSE (value.k = "num" /\ lines # <<>>) =>
                  /\ Len(lines) = 1
                  /\ IsEnumTextOf(ValueTextOf(lines[1], f.name), value.n,
                                  ResolvedType(reg, f))

\* status: 7 has no name; the elements 0 and 7 of tags give INACTIVE and 7
C15_Witness ==
  /\ pc = "textDone"
  /\ "status" \in DOMAIN textMsg.m
  /\ textMsg.m["status"] = JNum(7)
  /\ "tags" \in DOMAIN textMsg.m
  /\ textMsg.m["tags"] = JArr(<<JNum(0), JNum(7)>>)
  /\ LinesFor(textOut, "tags") = <<NameUnits("tags") \o <<58, 32>> \o S_INACTIVE,
                                   NameUnits("tags") \o <<58, 32, 55>>>>

\* C26: a singular enum field is omitted only when its number is 0: a field
\* holding a nonzero number is emitted, also when that number is the first
\* declared value of the enum (status = 1 gives status: ACTIVE).
C26_EnumOmittedOnlyAtZero ==
  pc = "textDone" =>
    \A f \in Range(reg[root].fields) :
      (/\ ~f.repeated
       /\ ResolvedType(reg, f) # None
       /\ IsEnum(ResolvedType(reg, f))
       /\ f.name \in DOMAIN textMsg.m
       /\ textMsg.m[f.name].k = "num"
       /\ textMsg.m[f.name].n # 0) =>
        /\ Len(LinesFor(textOut, f.name)) = 1
        /\ textMsg.m[f.name] = JNum(1) =>
             LinesFor(textOut, f.name) = <<NameUnits(f.name) \o <<58, 32>> \o S_ACTIVE>>

HexDigitUnits == (48..57) \cup (97..102) \cup (65..70)

HexDigitValue(u) == IF u <= 57 THEN u - 48 ELSE IF u >= 97 THEN u - 87 ELSE u - 55

\* the images the claim allows for one code unit
ClaimedEscapes(code) ==
  IF code = 34 THEN {<<92, 34>>}
  ELSE IF code = 92 THEN {<<92, 92>>}
  ELSE IF code = 10 THEN {<<92, 110>>}
  ELSE IF code = 13 THEN {<<92, 114>>}
  ELSE IF code = 9 THEN {<<92, 116>>}
  ELSE IF code < 32 \/ code > 126
    THEN {e \in {<<92, 120, h1, h2>> : h1 \in HexDigitUnits, h2 \in HexDigitUnits} :
            HexDigitValue(e[3]) * 16 + HexDigitValue(e[4]) = code}
  ELSE {<<code>>}

RECURSIVE ClaimedEscapedTexts(_)
ClaimedEscapedTexts(str) ==
  IF str = <<>> THEN {<<>>}
  ELSE {e \o rest : e \in ClaimedEscapes(Head(str)), rest \in ClaimedEscapedTexts(Tail(str))}

\* C16: the string is written between quotes, each code unit by the image the
\* claim names (\xHH with exactly two hexadecimal digits of its code for the
\* ones below 32 or above 126), so that only printable ASCII is written.
C16_EscapeString ==
  (/\ pc = "textDone"
   /\ "name" \in DOMAIN textMsg.m
   /\ textMsg.m["name"].k = "str"
   /\ textMsg.m["name"].s # <<>>) =>
      LET lines == LinesFor(textOut, "name") IN
      /\ Len(lines) = 1
      /\ \E e \in ClaimedEscapedTexts(textMsg.m["name"].s) :
           ValueTextOf(lines[1], "name") = <<34>> \o e \o <<34>>
      /\ \A i \in DOMAIN lines[1] : lines[1][i] >= 32 /\ lines[1][i] <= 126

\* the position of the field a top-level line names in the declaration
DeclaredIndex(line, type) ==
  CHOOSE i \in DOMAIN type.fields : LineNamesField(line, type.fields[i].name)

\* C17: the top-level lines name the fields in declaration order, whatever
\* the order in which the message object holds its keys.
C17_DeclarationOrder ==
  pc = "textDone" =>
    LET lines == TopLines(textOut) IN
    \A i, j \in DOMAIN lines :
      i < j => DeclaredIndex(lines[i], reg[root]) <= DeclaredIndex(lines[j], reg[root])

\* the object holds its keys in the reverse of the declaration order and
\* four fields are written
C17_Witness ==
  /\ pc = "textDone"
  /\ textKeys = ReverseOrder
  /\ DOMAIN textMsg.m = {"count", "name", "flag", "data"}
  /\ Len(TopLines(textOut)) = 4

(***************************************************************************)
(* Import graph resolver (extractImportsFromText, detectUnresolvedImports, *)
(* normalizeImportPath).  A path is a string of code units.  The loaded    *)
(* files are a JavaScript Map: a sequence of entries in insertion order    *)
(* with distinct keys.  The text of a file is the sequence of its lines;   *)
(* a line is either one the import pattern matches (import "p";) or one it *)
(* does not match although it names a path (// import "p";).               *)
(***************************************************************************)
\* "a.proto"
P_a == <<97, 46, 112, 114, 111, 116, 111>>

\* "sub/b.proto"
P_sub_b == <<115, 117, 98, 47, 98, 46, 112, 114, 111, 116, 111>>

\* "b.proto"
P_b == <<98, 46, 112, 114, 111, 116, 111>>

\* "sub/c.proto"
P_sub_c == <<115, 117, 98, 47, 99, 46, 112, 114, 111, 116, 111>>

\* "text-input.proto"
P_text_input == <<116, 101, 120, 116, 45, 105, 110, 112, 117, 116, 46, 112, 114, 111, 116, 111>>

\* "./sub/b.proto"
I_rel_sub_b == <<46, 47, 115, 117, 98, 47, 98, 46, 112, 114, 111, 116, 111>>

\* "../b.proto"
I_up_b == <<46, 46, 47, 98, 46, 112, 114, 111, 116, 111>>

\* "google/protobuf/any.proto"
I_any == <<103, 111, 111, 103, 108, 101, 47, 112, 114, 111, 116, 111, 98, 117, 102, 47, 97, 110, 121, 46, 112, 114, 111, 116, 111>>

\* "./x/../sub/./b.proto"
I_dots == <<46, 47, 120, 47, 46, 46, 47, 115, 117, 98, 47, 46, 47, 98, 46, 112, 114, 111, 116, 111>>

\* "c.proto"
I_c == <<99, 46, 112, 114, 111, 116, 111>>

\* "google/protobuf/"
WellKnownPrefix == <<103, 111, 111, 103, 108, 101, 47, 112, 114, 111, 116, 111, 98, 117, 102, 47>>

\* import "p";
ImportLine(path) == [kind |-> "import", path |-> path]

\* // import "p";
CommentLine(path) == [kind |-> "comment", path |-> path]

Entry(path, text) == [path |-> path, text |-> text]

MapKeys(map) == {map[i].path : i \in DOMAIN map}

\* new Map(map).set(key, text): an existing key keeps its position
MapSet(map, key, text) ==
  IF key \in MapKeys(map)
    THEN [i \in DOMAIN map |-> IF map[i].path = key THEN Entry(key, text) ELSE map[i]]
    ELSE Append(map, Entry(key, text))

\* importRegex.exec in a loop, skipping the well-known types
ExtractImportsFromText(text) ==
  LET matched == SelectSeq(text, LAMBDA l : /\ l.kind = "import"
                                           /\ ~StartsWith(l.path, WellKnownPrefix))
  IN [i \in DOMAIN matched |-> matched[i].path]

\* str.split('/')
RECURSIVE SplitPath(_)
SplitPath(str) ==
  LET slashes == {i \in DOMAIN str : str[i] = 47} IN
  IF slashes = {} THEN <<str>>
  ELSE LET first == CHOOSE i \in slashes : \A j \in slashes : i <= j
       IN <<SubSeq(str, 1, first - 1)>> \o SplitPath(SubSeq(str, first + 1, Len(str)))

\* parts.join('/')
RECURSIVE JoinPath(_)
JoinPath(parts) ==
  IF parts = <<>> THEN <<>>
  ELSE IF Len(parts) = 1 THEN parts[1]
  ELSE parts[1] \o <<47>> \o JoinPath(Tail(parts))

\* array.pop(): nothing happens on an empty array
PopPart(parts) == IF parts = <<>> THEN <<>> ELSE SubSeq(parts, 1, Len(parts) - 1)

\* a plausible slip: the file name of the origin is kept
OriginDirectoryKept(origin) == SplitPath(origin)

\* origin.split('/') without its last part
OriginDirectory(origin) == PopPart(SplitPath(origin))

\* for (const part of targetParts) ...
RECURSIVE ApplyParts(_, _)
ApplyParts(originParts, targetParts) ==
  IF targetParts = <<>> THEN originParts
  ELSE LET part == Head(targetParts) IN
       ApplyParts(IF part = <<46, 46>> THEN PopPart(originParts)
                  ELSE IF part # <<46>> THEN Append(originParts, part)
                  ELSE originParts,
                  Tail(targetParts))

NormalizeImportPath(origin, target) ==
  IF StartsWith(target, <<46, 47>>) \/ StartsWith(target, <<46, 46, 47>>)
    THEN JoinPath(ApplyParts(OriginDirectory(origin), SplitPath(target)))
    ELSE target

\* a plausible slip: only the literal text is looked up
IsUnresolvedLiteralOnly(loadedFilesPaths, filePath, importPath) ==
  importPath \notin loadedFilesPaths

\* neither the literal nor the normalized path is loaded
IsUnresolved(loadedFilesPaths, filePath, importPath) ==
  /\ importPath \notin loadedFilesPaths
  /\ NormalizeImportPath(filePath, importPath) \notin loadedFilesPaths

\* unresolved.add(importPath) for the imports of one file, in order
RECURSIVE AddUnresolved(_, _, _, _)
AddUnresolved(unresolved, loadedFilesPaths, filePath, imports) ==
  IF imports = <<>> THEN unresolved
  ELSE LET importPath == Head(imports)
           added == IF /\ IsUnresolved(loadedFilesPaths, filePath, importPath)
                       /\ importPath \notin Range(unresolved)
                      THEN Append(unresolved, importPath)
                      ELSE unresolved
       IN AddUnresolved(added, loadedFilesPaths, filePath, Tail(imports))

RECURSIVE DetectFrom(_, _, _)
DetectFrom(unresolved, entries, loadedFilesPaths) ==
  IF entries = <<>> THEN unresolved
  ELSE DetectFrom(AddUnresolved(unresolved, loadedFilesPaths, Head(entries).path,
                                ExtractImportsFromText(Head(entries).text)),
                  Tail(entries), loadedFilesPaths)

DetectUnresolvedImports(loadedFilesContent, loadedFilesPaths) ==
  DetectFrom(<<>>, loadedFilesContent, loadedFilesPaths)

\* a plausible slip: the new list is merged into the one of the state
NewStateUnresolvedMerged(previous, unresolved) ==
  previous \o SelectSeq(unresolved, LAMBDA p : p \notin Range(previous))

\* parseFiles returns unresolvedImports: unresolved and setState replaces the state
NewStateUnresolved(previous, unresolved) == unresolved

\* the unresolvedImports of the state parseFiles(filesMap, ...) returns
ParseFiles(previous, filesMap) ==
  NewStateUnresolved(previous, DetectUnresolvedImports(filesMap, MapKeys(filesMap)))

(***************************************************************************)
(* The resolver as operations of the hook: loadProtoFile and               *)
(* loadFromLocalStorage call parseFiles, which calls the resolver on the   *)
(* whole mapping; loadProtoFromText and clearProto set the list to [].     *)
(***************************************************************************)
\* number of distinct paths under which files are loaded
MaxFiles == 3

AllPaths == <<P_a, P_sub_b, P_b, P_sub_c>>

LoadablePaths == {AllPaths[i] : i \in {j \in DOMAIN AllPaths : j <= MaxFiles}}

FileTexts ==
  { <<>>,
    <<ImportLine(I_rel_sub_b)>>,
    <<ImportLine(I_any), ImportLine(I_up_b), CommentLine(I_c), ImportLine(P_b),
      ImportLine(I_dots)>> }

\* what local storage may hold: the mapping itself, or the mapping that a
\* session without one of the files has saved
StoredMaps(map) ==
  {map} \cup {SelectSeq(map, LAMBDA e : e.path # key) : key \in MapKeys(map)}

ImportInit ==
  /\ reg = TextRegistry
  /\ root = "Doc"
  /\ pc = "imports"
  /\ stack = <<>>
  /\ visitedTypes = {}
  /\ schema = None
  /\ maxDepth = 0
  /\ defaultMsg = None
  /\ normType = "Msg"
  /\ normInput = JNull
  /\ normValue = JNull
  /\ normOps = <<>>
  /\ TextIdle
  /\ ImportIdle
  /\ HookIdle
  /\ AppIdle
  /\ ConvIdle

LoadProtoFile ==
  /\ pc = "imports"
  /\ \E fileName \in LoadablePaths, text \in FileTexts :
       LET newLoadedFiles == MapSet(loadedFiles, fileName, text) IN
       /\ loadedFiles' = newLoadedFiles
       /\ unresolvedImports' = ParseFiles(unresolvedImports, newLoadedFiles)
  /\ lastOp' = "load"
  /\ UNCHANGED <<schemaVars, normVars, textVars, hookVars, appVars, convVars>>

LoadProtoFromText ==
  /\ pc = "imports"
  /\ \E text \in FileTexts : loadedFiles' = <<Entry(P_text_input, text)>>
  /\ unresolvedImports' = <<>>
  /\ lastOp' = "text"
  /\ UNCHANGED <<schemaVars, normVars, textVars, hookVars, appVars, convVars>>

ClearProto ==
  /\ pc = "imports"
  /\ loadedFiles' = <<>>
  /\ unresolvedImports' = <<>>
  /\ lastOp' = "clear"
  /\ UNCHANGED <<schemaVars, normVars, textVars, hookVars, appVars, convVars>>

LoadFromLocalStorage ==
  /\ pc = "imports"
  /\ \E filesMap \in StoredMaps(loadedFiles) :
       /\ loadedFiles' = filesMap
       /\ unresolvedImports' = ParseFiles(unresolvedImports, filesMap)
  /\ lastOp' = "restore"
  /\ UNCHANGED <<schemaVars, normVars, textVars, hookVars, appVars, convVars>>

ImportNext ==
  \/ LoadProtoFile
  \/ LoadProtoFromText
  \/ ClearProto
  \/ LoadFromLocalStorage

ImportSpec == ImportInit /\ [][ImportNext]_vars

(***************************************************************************)
(* Claims about the import resolver.                                       *)
(***************************************************************************)
\* the last operation called the resolver
ResolverCalled == lastOp \in {"load", "restore"}

\* the imports of a file the resolver considers: the well-known ones excluded
ImportsOf(text) ==
  {l.path : l \in {m \in Range(text) : m.kind = "import" /\ ~StartsWith(m.path, WellKnownPrefix)}}

\* neither the literal text nor the normalized path is a key
Unsatisfied(map, filePath, importPath) ==
  /\ importPath \notin MapKeys(map)
  /\ NormalizeImportPath(filePath, importPath) \notin MapKeys(map)

\* a.proto imports "./sub/b.proto": unresolved alone, resolved with sub/b.proto
ResolutionExample ==
  /\ loadedFiles = <<Entry(P_a, <<ImportLine(I_rel_sub_b)>>)>>
       => unresolvedImports = <<I_rel_sub_b>>
  /\ loadedFiles = <<Entry(P_a, <<ImportLine(I_rel_sub_b)>>), Entry(P_sub_b, <<>>)>>
       => unresolvedImports = <<>>

\* C18 as stated: each import of each loaded file is reported if and only if
\* neither its text nor its path normalized against that file is a key.
C18_PerImport ==
  ResolverCalled =>
    /\ \A e \in Range(loadedFiles) : \A p \in ImportsOf(e.text) :
         p \in Range(unresolvedImports) <=> Unsatisfied(loadedFiles, e.path, p)
    /\ ResolutionExample

\* C18: an import text is reported if and only if some loaded file imports it
\* while neither the text nor its path normalized against that file is a key;
\* it is reported once.
C18_Unresolved ==
  ResolverCalled =>
    /\ Range(unresolvedImports) =
         UNION {{p \in ImportsOf(e.text) : Unsatisfied(loadedFiles, e.path, p)} :
                  e \in Range(loadedFiles)}
    /\ \A i, j \in DOMAIN unresolvedImports :
         unresolvedImports[i] = unresolvedImports[j] => i = j
    /\ ResolutionExample

\* the second half of the example: sub/b.proto has just been loaded
C18_Witness ==
  /\ lastOp = "load"
  /\ loadedFiles = <<Entry(P_a, <<ImportLine(I_rel_sub_b)>>), Entry(P_sub_b, <<>>)>>
  /\ unresolvedImports = <<>>

\* the stack the claim describes after the first k segments of the target
RECURSIVE ClaimedStack(_, _, _)
ClaimedStack(origin, target, k) ==
  IF k = 0 THEN
    LET segments == SplitPath(origin) IN [i \in 1..(Len(segments) - 1) |-> segments[i]]
  ELSE
    LET before == ClaimedStack(origin, target, k - 1)
        segment == SplitPath(target)[k]
    IN IF segment = <<46, 46>> THEN [i \in 1..(Len(before) - 1) |-> before[i]]
       ELSE IF segment = <<46>> THEN before
       ELSE before \o <<segment>>

ClaimedNormalized(origin, target) ==
  IF StartsWith(target, <<46, 47>>) \/ StartsWith(target, <<46, 46, 47>>)
    THEN JoinPath(ClaimedStack(origin, target, Len(SplitPath(target))))
    ELSE target

\* C19: for every loaded file and every path one of its lines names, the
\* normalized path is the join of the stack the claim describes, and the
\* path itself when it does not start with ./ or ../
C19_Normalize ==
  \A e \in Range(loadedFiles) : \A l \in Range(e.text) :
    NormalizeImportPath(e.path, l.path) = ClaimedNormalized(e.path, l.path)

\* sub/b.proto importing "../b.proto" and "./x/../sub/./b.proto"
C19_Witness ==
  /\ \E e \in Range(loadedFiles) :
       /\ e.path = P_sub_b
       /\ \E l \in Range(e.text) : l.path = I_up_b
       /\ NormalizeImportPath(e.path, I_up_b) = P_b
  /\ \E e \in Range(loadedFiles) :
       /\ e.path = P_a
       /\ \E l \in Range(e.text) : l.path = I_dots
       /\ NormalizeImportPath(e.path, I_dots) = P_sub_b

\* the mapping without the file stored under key
WithoutFile(map, key) == SelectSeq(map, LAMBDA e : e.path # key)

\* C20: whatever was computed before, a resolver call leaves the list that
\* the mapping it was handed determines; when the mapping is the former one
\* less one file, every import that only that file satisfied is reported.
C20_FunctionOfMapping ==
  [][ResolverCalled' =>
       /\ unresolvedImports' = DetectUnresolvedImports(loadedFiles', MapKeys(loadedFiles'))
       /\ \A key \in MapKeys(loadedFiles) :
            loadedFiles' = WithoutFile(loadedFiles, key) =>
              \A e \in Range(loadedFiles') : \A p \in ImportsOf(e.text) :
                ({p, NormalizeImportPath(e.path, p)} \cap MapKeys(loadedFiles) = {key})
                  => p \in Range(unresolvedImports')]_vars

\* sub/b.proto was removed and the import of a.proto is reported again
C20_Witness ==
  /\ lastOp = "restore"
  /\ loadedFiles = <<Entry(P_a, <<ImportLine(I_rel_sub_b)>>)>>
  /\ unresolvedImports = <<I_rel_sub_b>>

(***************************************************************************)
(* useConversion.convert as a sequence of steps.  JSON.parse and the       *)
(* protobufjs calls (lookupType, verify, fromObject, encode) are library   *)
(* code: each returns or raises, and verify returns null or a message;     *)
(* every outcome is allowed.  The message fromObject returns holds the     *)
(* fields of the object it was given (bytes as base64 strings, one of the  *)
(* two forms formatFieldValue expects).                                    *)
(***************************************************************************)
ConvRegistry ==
  [n \in {"Doc", "Inner", "Status"} |->
     IF n = "Doc" THEN
       Message("Doc", <<Fld("count", "int32"), Fld("name", "string"), Fld("data", "bytes"),
                        Fld("status", "Status"), Fld("nested", "Inner"),
                        Rep("tags", "Inner")>>, <<>>)
     ELSE IF n = "Inner" THEN
       Message("Inner", <<Fld("count", "int32"), Fld("name", "string")>>, <<>>)
     ELSE StatusEnum]

\* the values the JSON texts handed to convert parse to
ConvValues ==
  { JNull, JObj(EmptyMap),
    JObj([key \in {"status", "data"} |->
            IF key = "status" THEN JStr(S_ACTIVE) ELSE JStr(S_hello_world)]),
    JObj([key \in {"status"} |-> JStr(S_UNKNOWN)]),
    JObj([key \in {"count", "name"} |-> IF key = "count" THEN JNum(5) ELSE JStr(<<65>>)]),
    JObj([key \in {"nested"} |-> JObj([k2 \in {"count"} |-> JNum(5)])]),
    JObj([key \in {"tags"} |-> JObj(EmptyMap)]),
    JObj([key \in {"tags"} |-> JArr(<<JObj([k2 \in {"count"} |-> JNum(5)])>>)]) }

\* a JSON text: one JSON.parse rejects, or one it parses to a value
ConvJsonTexts ==
  {[ok |-> FALSE, value |-> JNull]} \cup {[ok |-> TRUE, value |-> v] : v \in ConvValues}

\* the OutputFormat values and one string outside the type
ConvFormats == {"binary", "base64", "hex", "textproto", "yaml"}

\* the buffers encode may return
ConvBuffers == {<<>>, <<8, 5>>, <<10, 1, 65, 255>>}

\* what a library call may raise: an Error with its message, or another value
LibraryThrows ==
  { [isError |-> TRUE, message |-> "invalid encoding"],
    [isError |-> TRUE, message |-> "Unexpected token"],
    [isError |-> FALSE, message |-> "thrown value"] }

TypeErrorNotAFunction == [isError |-> TRUE, message |-> "value.map is not a function"]

BytesNote ==
  "\n\nNote: For bytes fields, you can enter plain text (it will be auto-converted to base64) or valid base64-encoded data."

\* errorMessage.includes('invalid encoding') || errorMessage.includes('Invalid encoding')
IncludesInvalidEncoding(message) == message = "invalid encoding"

\* the catch block: the result returned for what was raised
CatchResult(thrown) ==
  LET errorMessage == IF thrown.isError THEN thrown.message ELSE "Conversion failed" IN
  [field \in {"error"} |->
     IF IncludesInvalidEncoding(errorMessage) THEN <<errorMessage, BytesNote>>
     ELSE <<errorMessage>>]

ErrorResult(parts) == [field \in {"error"} |-> parts]

\* every step from lookupType to the switch is inside the try block
InTryBlock(step) == TRUE

\* a plausible slip: the verify error is logged and the conversion goes on
VerifyRejectsNever(verifyError) == FALSE

\* if (verifyError)
VerifyRejects(verifyError) == verifyError # "null"

\* b.toString(16).padStart(2, '0') for every byte, joined
Uint8ArrayToHex(buffer) ==
  Flatten([i \in DOMAIN buffer |->
             IF Len(ToHex(buffer[i])) < 2 THEN <<48>> \o ToHex(buffer[i])
             ELSE ToHex(buffer[i])])

\* btoa of the string of the bytes' code units
Uint8ArrayToBase64(buffer) == Btoa(buffer)

\* the step raised: the catch block returns, or the exception leaves convert
Raise(step, thrown) ==
  /\ convSteps' = Append(convSteps, [step |-> step, outcome |-> "raised"])
  /\ IF InTryBlock(step)
       THEN convStage' = "returned" /\ convResult' = CatchResult(thrown)
       ELSE convStage' = "thrown" /\ convResult' = NoResult

\* the step returned normally
Pass(step, nextStage) ==
  /\ convSteps' = Append(convSteps, [step |-> step, outcome |-> "ok"])
  /\ convStage' = nextStage

ConvUnchangedOthers ==
  UNCHANGED <<schemaVars, normVars, textVars, importVars, appVars>>

ConvUnchangedHook ==
  UNCHANGED <<availableMessages, selectedMessage, rootLoaded, error, mainFile,
              protoFiles, savedMainFile, pendingLoads>>

ConvertInit ==
  /\ reg = ConvRegistry
  /\ root = "Doc"
  /\ pc = "convert"
  /\ stack = <<>>
  /\ visitedTypes = {}
  /\ schema = None
  /\ maxDepth = 0
  /\ defaultMsg = None
  /\ normType = "Msg"
  /\ normInput = JNull
  /\ normValue = JNull
  /\ normOps = <<>>
  /\ TextIdle
  /\ ImportIdle
  /\ AppIdle
  /\ availableMessages = <<"Doc", "Inner">>
  /\ selectedMessage \in {NoMessage, "Doc", "Gone"}
  /\ rootLoaded = FALSE
  /\ error = "null"
  /\ mainFile = <<>>
  /\ protoFiles = <<>>
  /\ savedMainFile = <<>>
  /\ pendingLoads = <<>>
  /\ convRoot \in BOOLEAN
  /\ convJson \in ConvJsonTexts
  /\ convFormat \in ConvFormats
  /\ convStage = "called"
  /\ convObj = JNull
  /\ convSteps = <<>>
  /\ convVerifyError = "null"
  /\ convBuffer = <<>>
  /\ convResult = NoResult

\* if (!root || !selectedMessage) return ...; const type = root.lookupType(...)
ConvertEnter ==
  /\ pc = "convert"
  /\ convStage = "called"
  /\ IF ~convRoot \/ selectedMessage = NoMessage THEN
       /\ convStage' = "returned"
       /\ convResult' = ErrorResult(<<"No message type selected">>)
       /\ UNCHANGED convSteps
     ELSE IF selectedMessage \in DOMAIN reg /\ IsType(reg[selectedMessage]) THEN
       /\ Pass("lookupType", "parse")
       /\ UNCHANGED convResult
     ELSE Raise("lookupType", [isError |-> TRUE, message |-> "no such type"])
  /\ UNCHANGED <<convRoot, convJson, convFormat, convObj, convVerifyError, convBuffer>>
  /\ ConvUnchangedHook
  /\ ConvUnchangedOthers

\* const obj = JSON.parse(jsonText)
ConvertParse ==
  /\ pc = "convert"
  /\ convStage = "parse"
  /\ IF convJson.ok THEN
       /\ Pass("parse", "enum")
       /\ convObj' = convJson.value
       /\ UNCHANGED convResult
     ELSE
       /\ Raise("parse", [isError |-> TRUE, message |-> "Unexpected token"])
       /\ UNCHANGED convObj
  /\ UNCHANGED <<convRoot, convJson, convFormat, convVerifyError, convBuffer>>
  /\ ConvUnchangedHook
  /\ ConvUnchangedOthers

\* let normalizedObj = normalizeEnumValues(obj, type)
ConvertNormalizeEnums ==
  /\ pc = "convert"
  /\ convStage = "enum"
  /\ LET normalizedObj == NormalizeEnumValues(reg, convObj, reg[selectedMessage]) IN
     IF normalizedObj # Thrown THEN
       /\ Pass("enum", "bytes")
       /\ convObj' = normalizedObj
       /\ UNCHANGED convResult
     ELSE
       /\ Raise("enum", TypeErrorNotAFunction)
       /\ UNCHANGED convObj
  /\ UNCHANGED <<convRoot, convJson, convFormat, convVerifyError, convBuffer>>
  /\ ConvUnchangedHook
  /\ ConvUnchangedOthers

\* normalizedObj = normalizeBytesFields(normalizedObj, type)
ConvertNormalizeBytes ==
  /\ pc = "convert"
  /\ convStage = "bytes"
  /\ LET normalizedObj == NormalizeBytesFields(reg, convObj, reg[selectedMessage]) IN
     IF normalizedObj # Thrown THEN
       /\ Pass("bytes", "verify")
       /\ convObj' = normalizedObj
       /\ UNCHANGED convResult
     ELSE
       /\ Raise("bytes", TypeErrorNotAFunction)
       /\ UNCHANGED convObj
  /\ UNCHANGED <<convRoot, convJson, convFormat, convVerifyError, convBuffer>>
  /\ ConvUnchangedHook
  /\ ConvUnchangedOthers

\* const verifyError = type.verify(normalizedObj); if (verifyError) return ...
ConvertVerify ==
  /\ pc = "convert"
  /\ convStage = "verify"
  /\ \/ \E verifyError \in {"null", "status: enum value expected"} :
          /\ convVerifyError' = verifyError
          /\ convSteps' = Append(convSteps, [step |-> "verify", outcome |-> "ok"])
          /\ IF VerifyRejects(verifyError)
               THEN /\ convStage' = "returned"
                    /\ convResult' = ErrorResult(<<"Validation error: ", verifyError>>)
               ELSE /\ convStage' = "fromObject"
                    /\ UNCHANGED convResult
     \/ \E thrown \in LibraryThrows :
          /\ Raise("verify", thrown)
          /\ UNCHANGED convVerifyError
  /\ UNCHANGED <<convRoot, convJson, convFormat, convObj, convBuffer>>
  /\ ConvUnchangedHook
  /\ ConvUnchangedOthers

\* const message = type.fromObject(normalizedObj)
ConvertFromObject ==
  /\ pc = "convert"
  /\ convStage = "fromObject"
  /\ \/ /\ Pass("fromObject", "encode")
        /\ UNCHANGED convResult
     \/ \E thrown \in LibraryThrows : Raise("fromObject", thrown)
  /\ UNCHANGED <<convRoot, convJson, convFormat, convObj, convVerifyError, convBuffer>>
  /\ ConvUnchangedHook
  /\ ConvUnchangedOthers

\* const buffer = type.encode(message).finish()
ConvertEncode ==
  /\ pc = "convert"
  /\ convStage = "encode"
  /\ \/ \E buffer \in ConvBuffers :
          /\ Pass("encode", "format")
          /\ convBuffer' = buffer
          /\ UNCHANGED convResult
     \/ \E thrown \in LibraryThrows :
          /\ Raise("encode", thrown)
          /\ UNCHANGED convBuffer
  /\ UNCHANGED <<convRoot, convJson, convFormat, convObj, convVerifyError>>
  /\ ConvUnchangedHook
  /\ ConvUnchangedOthers

\* switch (format)
ConvertFormat ==
  /\ pc = "convert"
  /\ convStage = "format"
  /\ convSteps' = Append(convSteps, [step |-> "format", outcome |-> "ok"])
  /\ convStage' = "returned"
  /\ convResult' =
       IF convFormat = "binary" THEN [field \in {"binary"} |-> convBuffer]
       ELSE IF convFormat = "base64" THEN
         [field \in {"base64"} |-> Uint8ArrayToBase64(convBuffer)]
       ELSE IF convFormat = "hex" THEN [field \in {"hex"} |-> Uint8ArrayToHex(convBuffer)]
       ELSE IF convFormat = "textproto" THEN
         [field \in {"textproto"} |->
            MessageToProtoText(reg, FieldNamesInOrder(reg[selectedMessage], <<>>),
                               convObj, reg[selectedMessage], 0)]
       ELSE ErrorResult(<<"Unknown format">>)
  /\ UNCHANGED <<convRoot, convJson, convFormat, convObj, convVerifyError, convBuffer>>
  /\ ConvUnchangedHook
  /\ ConvUnchangedOthers

ConvertNext ==
  \/ ConvertEnter
  \/ ConvertParse
  \/ ConvertNormalizeEnums
  \/ ConvertNormalizeBytes
  \/ ConvertVerify
  \/ ConvertFromObject
  \/ ConvertEncode
  \/ ConvertFormat

ConvertSpec == ConvertInit /\ [][ConvertNext]_vars

\* convert is synchronous: a call that has started runs to its end
ConvertFairSpec == ConvertSpec /\ WF_vars(ConvertNext)

(***************************************************************************)
(* Claim about useConversion.convert.                                      *)
(***************************************************************************)
ConvStepOrder ==
  <<"lookupType", "parse", "enum", "bytes", "verify", "fromObject", "encode", "format">>

OutputFields == {"binary", "base64", "hex", "textproto"}

StepNames == [i \in DOMAIN convSteps |-> convSteps[i].step]

StepRan(step) == \E i \in DOMAIN convSteps : convSteps[i].step = step

SomeStepFailed ==
  \/ \E i \in DOMAIN convSteps : convSteps[i].outcome = "raised"
  \/ convVerifyError # "null"

\* the steps run in the claimed order; encode runs only after verify reported
\* no error on the object both passes have normalized; a returned result
\* carries exactly the error field when an argument is null or a step
\* failed, and otherwise exactly one field (the output of a known format)
ConvertContract ==
  /\ convStage # "thrown"
  /\ StepNames = SubSeq(ConvStepOrder, 1, Len(convSteps))
  /\ StepRan("encode") =>
       /\ StepRan("verify") /\ convVerifyError = "null"
       /\ convObj = NormalizeBytesFields(reg,
                      NormalizeEnumValues(reg, convJson.value, reg[selectedMessage]),
                      reg[selectedMessage])
  /\ convStage = "returned" =>
       /\ DOMAIN convResult \subseteq OutputFields \cup {"error"}
       /\ Cardinality(DOMAIN convResult) = 1
       /\ (~convRoot \/ selectedMessage = NoMessage \/ SomeStepFailed)
            => DOMAIN convResult = {"error"}
       /\ DOMAIN convResult # {"error"} =>
            /\ StepNames = ConvStepOrder
            /\ DOMAIN convResult = {convFormat}

\* C27: convert never throws and always returns a ConversionResult; the
\* steps run in the order parse, enum pass, bytes pass, verify, fromObject,
\* encode, format; encode runs only after verify accepted the normalized
\* object; a null argument or a failing step gives a result with the error
\* field and no output field.
C27_ConvertTotal ==
  /\ []ConvertContract
  /\ <>(convStage = "returned")

\* a conversion that went through every step and returned the hex text
C27_Witness ==
  /\ convStage = "returned"
  /\ StepNames = ConvStepOrder
  /\ convFormat = "hex"
  /\ convBuffer = <<8, 5>>
  /\ convResult = [field \in {"hex"} |-> <<48, 56, 48, 53>>]

(***************************************************************************)
(* The App component around the per-message JSON content (App.tsx).  A     *)
(* JSON content is identified by the message type it was loaded,           *)
(* generated or edited for.  An event is taken together with the render it *)
(* causes and the effects of that render: the load effect (dependencies    *)
(* selectedMessage, root, validateJson) and the debounced save effect      *)
(* (dependencies jsonValue, selectedMessage).  What stays pending between  *)
(* events is state: the loads of loadMessageContent in flight and the      *)
(* timer of the save effect.                                               *)
(***************************************************************************)
\* the message types of the loaded schema, in the order the hook lists them
AppMessages == <<"A", "B">>

Content(m, kind) == [owner |-> m, kind |-> kind]

ContentsOf(m) == {Content(m, "generated"), Content(m, "edited")}

\* the load effect after a render in which selectedMessage or root changed:
\* the editor content it sets at once, if any
LoadEffectContent(selected, loaded, json) ==
  IF ~loaded \/ selected = NoMessage THEN json
  ELSE IF isInitialMount /\ lastJson # NoContent THEN lastJson
  ELSE json

\* the load effect clears the flag only when it took the old saved JSON
LoadEffectInitialMount(selected, loaded) ==
  IF ~loaded \/ selected = NoMessage THEN isInitialMount
  ELSE IF isInitialMount /\ lastJson # NoContent THEN FALSE
  ELSE isInitialMount

\* the load effect calls loadMessageContent for the selected message
LoadEffectPending(selected, loaded) ==
  IF ~loaded \/ selected = NoMessage THEN pendingContent
  ELSE IF isInitialMount /\ lastJson # NoContent THEN pendingContent
  ELSE pendingContent \cup {selected}

\* the save effect after a render in which jsonValue or selectedMessage
\* changed: the former timer is cleared and a new one set
SaveEffect(selected, json) ==
  IF selected = selectedMessage /\ json = jsonValue THEN saveTimer
  ELSE IF selected = NoMessage THEN NoSave
  ELSE [message |-> selected, json |-> json]

\* the render after selectedMessage or root changed, with its effects
RenderWith(selected, loaded, json) ==
  LET newJson == LoadEffectContent(selected, loaded, json) IN
  /\ selectedMessage' = selected
  /\ rootLoaded' = loaded
  /\ jsonValue' = newJson
  /\ isInitialMount' = LoadEffectInitialMount(selected, loaded)
  /\ pendingContent' = LoadEffectPending(selected, loaded)
  /\ saveTimer' = SaveEffect(selected, newJson)

AppUnchangedOthers ==
  UNCHANGED <<schemaVars, normVars, textVars, importVars, convVars,
              error, mainFile, protoFiles, savedMainFile, pendingLoads>>

\* what the store may hold when the App is mounted: for every message type
\* nothing or a content of that type
AppStores == [Range(AppMessages) -> {NoContent}] \cup
             {[m \in Range(AppMessages) |-> Content(m, "edited")]} \cup
             {[m \in Range(AppMessages) |->
                 IF m = k THEN Content(m, "edited") ELSE NoContent] : k \in Range(AppMessages)}

AppInit ==
  /\ reg = TextRegistry
  /\ root = "Doc"
  /\ pc = "app"
  /\ stack = <<>>
  /\ visitedTypes = {}
  /\ schema = None
  /\ maxDepth = 0
  /\ defaultMsg = None
  /\ normType = "Msg"
  /\ normInput = JNull
  /\ normValue = JNull
  /\ normOps = <<>>
  /\ TextIdle
  /\ ImportIdle
  /\ HookIdle
  /\ ConvIdle
  /\ jsonValue = DefaultJson
  /\ isInitialMount = TRUE
  /\ saveTimer = NoSave
  /\ pendingContent = {}
  /\ messageStates \in AppStores
  /\ lastJson \in {NoContent} \cup {messageStates[m] : m \in Range(AppMessages)}
  /\ lastSave = NoSave

\* the hook has parsed the schema (loadFromLocalStorage on mount, or
\* loadProtoFile): a new root, and the first message selected if none was
ProtoLoaded ==
  /\ pc = "app"
  /\ availableMessages' = AppMessages
  /\ RenderWith(IF selectedMessage = NoMessage THEN AppMessages[1] ELSE selectedMessage,
                TRUE, jsonValue)
  /\ UNCHANGED <<messageStates, lastJson, lastSave>>
  /\ AppUnchangedOthers

\* the user picks a listed message type
AppSelectMessage ==
  /\ pc = "app"
  /\ \E m \in Range(availableMessages) :
       /\ m # selectedMessage
       /\ RenderWith(m, rootLoaded, jsonValue)
  /\ UNCHANGED <<availableMessages, messageStates, lastJson, lastSave>>
  /\ AppUnchangedOthers

\* the user edits the content of the selected message type
EditJson ==
  /\ pc = "app"
  /\ selectedMessage # NoMessage
  /\ jsonValue' = Content(selectedMessage, "edited")
  /\ saveTimer' = SaveEffect(selectedMessage, jsonValue')
  /\ UNCHANGED <<availableMessages, selectedMessage, rootLoaded>>
  /\ UNCHANGED <<isInitialMount, pendingContent, messageStates, lastJson, lastSave>>
  /\ AppUnchangedOthers

\* loadMessageContent, called for message m, settles: the saved content if
\* there is one and it validates, else the generated default, and
\* DEFAULT_JSON when loading or generating raised
LoadMessageContent ==
  /\ pc = "app"
  /\ \E m \in pendingContent :
       /\ pendingContent' = pendingContent \ {m}
       /\ \E valid \in BOOLEAN, raised \in BOOLEAN :
            jsonValue' = IF raised THEN DefaultJson
                         ELSE IF messageStates[m] # NoContent /\ valid THEN messageStates[m]
                         ELSE Content(m, "generated")
  /\ saveTimer' = SaveEffect(selectedMessage, jsonValue')
  /\ UNCHANGED <<availableMessages, selectedMessage, rootLoaded>>
  /\ UNCHANGED <<isInitialMount, messageStates, lastJson, lastSave>>
  /\ AppUnchangedOthers

\* the timer of the save effect fires
SaveTimerFires ==
  /\ pc = "app"
  /\ saveTimer # NoSave
  /\ lastSave' = saveTimer
  /\ messageStates' = [messageStates EXCEPT ![saveTimer.message] = saveTimer.json]
  /\ lastJson' = saveTimer.json
  /\ saveTimer' = NoSave
  /\ UNCHANGED <<availableMessages, selectedMessage, rootLoaded>>
  /\ UNCHANGED <<jsonValue, isInitialMount, pendingContent>>
  /\ AppUnchangedOthers

\* handleClear: clearProto, then the editor content reset
HandleClear ==
  /\ pc = "app"
  /\ availableMessages' = <<>>
  /\ selectedMessage' = NoMessage
  /\ rootLoaded' = FALSE
  /\ jsonValue' = DefaultJson
  /\ saveTimer' = SaveEffect(NoMessage, DefaultJson)
  /\ UNCHANGED <<isInitialMount, pendingContent, messageStates, lastJson, lastSave>>
  /\ AppUnchangedOthers

AppNext ==
  \/ ProtoLoaded
  \/ AppSelectMessage
  \/ EditJson
  \/ LoadMessageContent
  \/ SaveTimerFires
  \/ HandleClear

AppSpec == AppInit /\ [][AppNext]_vars

(***************************************************************************)
(* Claim about the per-message state.                                      *)
(***************************************************************************)
\* the content was loaded, generated or edited for message type m, or is
\* the placeholder of no message type
ContentFor(json, m) == json.owner = m \/ json = DefaultJson

\* C25: saveMessageState(m, j) is called only with j a content of message
\* type m, so no message type's key holds the JSON of another message type.
C25_OwnContent ==
  /\ lastSave # NoSave => ContentFor(lastSave.json, lastSave.message)
  /\ pc = "app" =>
       \A m \in Range(AppMessages) :
         messageStates[m] # NoContent => ContentFor(messageStates[m], m)

(***************************************************************************)
(* The useProtobuf hook as a whole (hooks/useProtobuf.ts): its state, the  *)
(* 'protoFiles' entry of localStorage and the loadProtoFile calls in       *)
(* flight.  loadProtoFile is asynchronous and reads state.loadedFiles,     *)
(* state.mainFile and state.selectedMessage from the render in which it    *)
(* was called: a call is started (those values captured) and completed     *)
(* (file read, files parsed, state replaced, mapping persisted) in two     *)
(* steps, and calls complete in any order.  A file text is a sequence of   *)
(* lines: imports, message definitions and lines the parser rejects.       *)
(* parse adds definitions to the root line by line and raises at a         *)
(* rejected line or at a name the root already has.                        *)
(***************************************************************************)
\* number of loadProtoFile calls in flight at once
MaxPending == 2

\* number of files loaded at once
MaxHookFiles == 2

\* message M { }
MessageLine(name) == [kind |-> "message", path |-> <<>>, name |-> name]

\* a line the parser rejects
BadLine == [kind |-> "bad", path |-> <<>>]

\* message A, importing "./sub/b.proto"
Text_A == <<MessageLine("A"), ImportLine(I_rel_sub_b)>>

\* message B, importing "../b.proto"
Text_B == <<MessageLine("B"), ImportLine(I_up_b)>>

Text_bad == <<BadLine, MessageLine("A")>>

\* the names of the files the file picker offers
HookFileNames == {P_a, P_b}

HookFileTexts == {Text_A, Text_B}

HookTextInputs == {Text_A, Text_bad}

\* the messages of the root after parse(text, root) has run to its end or raised
RECURSIVE ParseLines(_, _)
ParseLines(messages, lines) ==
  IF lines = <<>> THEN messages
  ELSE LET line == Head(lines) IN
       IF line.kind = "bad" THEN messages
       ELSE IF line.kind = "message" THEN
         IF line.name \in Range(messages) THEN messages
         ELSE ParseLines(Append(messages, line.name), Tail(lines))
       ELSE ParseLines(messages, Tail(lines))

\* parse(text, root) raises
RECURSIVE ParseRaises(_, _)
ParseRaises(messages, lines) ==
  IF lines = <<>> THEN FALSE
  ELSE LET line == Head(lines) IN
       IF line.kind = "bad" THEN TRUE
       ELSE IF line.kind = "message" THEN
         \/ line.name \in Range(messages)
         \/ ParseRaises(Append(messages, line.name), Tail(lines))
       ELSE ParseRaises(messages, Tail(lines))

\* parseFiles: every file parsed into one root, a failing file skipped
RECURSIVE ExtractMessages(_, _)
ExtractMessages(messages, entries) ==
  IF entries = <<>> THEN messages
  ELSE ExtractMessages(ParseLines(messages, Head(entries).text), Tail(entries))

\* currentSelectedMessage || (messages.length > 0 ? messages[0] : null)
SelectedAfterParse(currentSelectedMessage, messages) ==
  IF currentSelectedMessage # NoMessage THEN currentSelectedMessage
  ELSE IF messages # <<>> THEN messages[1]
  ELSE NoMessage

\* setState(await parseFiles(filesMap, mainFileName, currentSelectedMessage))
SetParsedState(filesMap, mainFileName, currentSelectedMessage) ==
  LET messages == ExtractMessages(<<>>, filesMap) IN
  /\ rootLoaded' = TRUE
  /\ availableMessages' = messages
  /\ selectedMessage' = SelectedAfterParse(currentSelectedMessage, messages)
  /\ error' = "null"
  /\ loadedFiles' = filesMap
  /\ unresolvedImports' = ParseFiles(unresolvedImports, filesMap)
  /\ mainFile' = mainFileName

RemoveAt(seq, i) == [j \in 1..(Len(seq) - 1) |-> IF j < i THEN seq[j] ELSE seq[j + 1]]

\* the calls in flight, each noting that the call named has completed meanwhile
NoteCompleted(calls, fileName) ==
  [j \in DOMAIN calls |-> [calls[j] EXCEPT !.completedMeanwhile = @ \cup {fileName}]]

\* the calls in flight after an operation other than loadProtoFile replaced
\* the state
NoteReplaced(calls) ==
  [j \in DOMAIN calls |-> [calls[j] EXCEPT !.completedMeanwhile = {}]]

\* the call was made from the current render: the state it captured is the
\* current one.  Calls in flight at once are taken from one render (a burst
\* of calls); this bounds the interleavings explored.
SameRender(call) ==
  /\ call.loadedFiles = loadedFiles
  /\ call.mainFile = mainFile
  /\ call.selectedMessage = selectedMessage

HookUnchangedOthers ==
  UNCHANGED <<schemaVars, normVars, textVars, appVars, convVars>>

HookInit ==
  /\ reg = TextRegistry
  /\ root = "Doc"
  /\ pc = "hook"
  /\ stack = <<>>
  /\ visitedTypes = {}
  /\ schema = None
  /\ maxDepth = 0
  /\ defaultMsg = None
  /\ normType = "Msg"
  /\ normInput = JNull
  /\ normValue = JNull
  /\ normOps = <<>>
  /\ TextIdle
  /\ ImportIdle
  /\ HookIdle
  /\ AppIdle
  /\ ConvIdle

\* loadProtoFile(file, importPath?) up to its first await: called from the
\* file picker with the file's name, or from the import-resolver panel
\* (handleFileChange) with the text of an unresolved import
StartLoadProtoFile ==
  /\ pc = "hook"
  /\ Len(pendingLoads) < MaxPending
  /\ \A j \in DOMAIN pendingLoads : SameRender(pendingLoads[j])
  /\ \E fileName \in HookFileNames \cup Range(unresolvedImports), text \in HookFileTexts :
       /\ fileName \in MapKeys(loadedFiles) \/ Len(loadedFiles) < MaxHookFiles
       /\ pendingLoads' = Append(pendingLoads,
                              [fileName |-> fileName, text |-> text,
                               loadedFiles |-> loadedFiles, mainFile |-> mainFile,
                               selectedMessage |-> selectedMessage,
                               completedMeanwhile |-> {}])
  /\ UNCHANGED <<importVars, availableMessages, selectedMessage, rootLoaded, error,
                 mainFile, protoFiles, savedMainFile>>
  /\ HookUnchangedOthers

\* the rest of loadProtoFile: the file read (or the read failing), the files
\* parsed, the state replaced and the mapping persisted
CompleteLoadProtoFile ==
  /\ pc = "hook"
  /\ \E i \in DOMAIN pendingLoads, readFails \in BOOLEAN :
       LET call == pendingLoads[i]
           newLoadedFiles == MapSet(call.loadedFiles, call.fileName, call.text)
           mainFileName == IF call.mainFile # <<>> THEN call.mainFile ELSE call.fileName
       IN
       IF readFails THEN
         /\ error' = "Failed to parse .proto file"
         /\ lastOp' = "loadFailed"
         /\ pendingLoads' = RemoveAt(pendingLoads, i)
         /\ UNCHANGED <<loadedFiles, unresolvedImports, availableMessages, selectedMessage,
                        rootLoaded, mainFile, protoFiles, savedMainFile>>
       ELSE
         /\ SetParsedState(newLoadedFiles, mainFileName, call.selectedMessage)
         /\ protoFiles' = newLoadedFiles
         /\ savedMainFile' = mainFileName
         /\ lastOp' = "load"
         /\ pendingLoads' = NoteCompleted(RemoveAt(pendingLoads, i), call.fileName)
  /\ HookUnchangedOthers

HookLoadProtoFromText ==
  /\ pc = "hook"
  /\ \E text \in HookTextInputs :
       IF ParseRaises(<<>>, text) THEN
         /\ rootLoaded' = FALSE
         /\ availableMessages' = <<>>
         /\ selectedMessage' = NoMessage
         /\ error' = "Failed to parse .proto text"
         /\ UNCHANGED <<loadedFiles, unresolvedImports, mainFile>>
       ELSE
         /\ rootLoaded' = TRUE
         /\ availableMessages' = ParseLines(<<>>, text)
         /\ selectedMessage' = SelectedAfterParse(NoMessage, ParseLines(<<>>, text))
         /\ error' = "null"
         /\ loadedFiles' = <<Entry(P_text_input, text)>>
         /\ unresolvedImports' = <<>>
         /\ mainFile' = P_text_input
  /\ lastOp' = "text"
  /\ pendingLoads' = NoteReplaced(pendingLoads)
  /\ UNCHANGED <<protoFiles, savedMainFile>>
  /\ HookUnchangedOthers

SelectMessage ==
  /\ pc = "hook"
  /\ \E messageName \in Range(availableMessages) :
       /\ messageName # selectedMessage
       /\ selectedMessage' = messageName
  /\ UNCHANGED <<importVars, availableMessages, rootLoaded, error, mainFile, protoFiles,
                 savedMainFile, pendingLoads>>
  /\ HookUnchangedOthers

HookClearProto ==
  /\ pc = "hook"
  /\ rootLoaded' = FALSE
  /\ availableMessages' = <<>>
  /\ selectedMessage' = NoMessage
  /\ error' = "null"
  /\ loadedFiles' = <<>>
  /\ unresolvedImports' = <<>>
  /\ mainFile' = <<>>
  /\ protoFiles' = <<>>
  /\ savedMainFile' = <<>>
  /\ lastOp' = "clear"
  /\ pendingLoads' = NoteReplaced(pendingLoads)
  /\ HookUnchangedOthers

\* loadFromLocalStorage: nothing happens without a 'protoFiles' entry; the
\* entry always parses as JSON, being written by loadProtoFile
HookLoadFromLocalStorage ==
  /\ pc = "hook"
  /\ protoFiles # <<>>
  /\ SetParsedState(protoFiles, savedMainFile, NoMessage)
  /\ lastOp' = "restore"
  /\ pendingLoads' = NoteReplaced(pendingLoads)
  /\ UNCHANGED <<protoFiles, savedMainFile>>
  /\ HookUnchangedOthers

HookNext ==
  \/ StartLoadProtoFile
  \/ CompleteLoadProtoFile
  \/ HookLoadProtoFromText
  \/ SelectMessage
  \/ HookClearProto
  \/ HookLoadFromLocalStorage

HookSpec == HookInit /\ [][HookNext]_vars

(***************************************************************************)
(* Claims about the hook as a whole, checked under HookSpec.               *)
(***************************************************************************)
\* the path without its "." segments and with its ".." segments resolved
Canonical(path) == JoinPath(ApplyParts(<<>>, SplitPath(path)))

\* the file an import of the file keyed filePath denotes
Denotes(filePath, importPath) == Canonical(NormalizeImportPath(filePath, importPath))

\* some key, in whatever form, denotes the file
FileLoaded(map, file) == \E key \in MapKeys(map) : Canonical(key) = file

\* C21: the forms of a path are reconciled: an import is reported only if
\* some loaded file imports it and the file it denotes there is loaded under
\* no key, be the keys literal import texts ("./sub/b.proto") or
\* relative-resolved paths ("sub/b.proto").
C21_CanonicalKeys ==
  ResolverCalled =>
    \A p \in Range(unresolvedImports) :
      \E e \in Range(loadedFiles) :
        /\ p \in ImportsOf(e.text)
        /\ ~FileLoaded(loadedFiles, Denotes(e.path, p))

\* the step completes the call: it leaves the calls in flight and its state
\* update is applied
Completes(call) ==
  /\ lastOp' = "load"
  /\ \E i \in DOMAIN pendingLoads :
       /\ pendingLoads[i] = call
       /\ pendingLoads' = NoteCompleted(RemoveAt(pendingLoads, i), call.fileName)

\* C28: no lost update between overlapping loadProtoFile calls: when a call
\* completes, loadedFiles holds its file and the file of every call that
\* completed while it was in flight, and the persisted 'protoFiles' entry
\* equals loadedFiles.
C28_NoLostUpdate ==
  [][\A call \in Range(pendingLoads) :
       Completes(call) =>
         /\ call.completedMeanwhile \cup {call.fileName} \subseteq MapKeys(loadedFiles')
         /\ protoFiles' = loadedFiles']_vars

\* C29: selectedMessage is null or one of availableMessages.
C29_SelectedIsAvailable ==
  selectedMessage = NoMessage \/ selectedMessage \in Range(availableMessages)

\* C30: unresolvedImports is the list the resolver computes from the
\* current loadedFiles.
C30_UnresolvedCurrent ==
  unresolvedImports = DetectUnresolvedImports(loadedFiles, MapKeys(loadedFiles))

====
